---- MODULE Spec2Model ----
(***************************************************************************)
(* Model of the event-manager workflow graph                               *)
(* (src/src/agents/event_manager_agent): the conditional entry router, the *)
(* forward edges, the four phase nodes and the FindSuppliers action loop,  *)
(* over the channels of SupplierState.                                     *)
(*                                                                         *)
(* Values are records [k, v]: k is the Python type of the value and v its  *)
(* content; v = "" is the empty value of that type ("" / {} / []), which   *)
(* Python treats as false.                                                 *)
(***************************************************************************)
EXTENDS Integers, Sequences, FiniteSets, TLC

\* ------------------------------------------------------------------ bounds
\* longest conversation log explored
MaxLog == 6
\* most tool calls one oracle response may request
MaxToolCalls == 2
\* supersteps the graph runtime allows in one invocation before it raises
\* GraphRecursionError (the recursion_limit of the invocation's config, which
\* the caller may set; the runtime's default is 25)
RecursionLimit == 5

\* ------------------------------------------------------------------ values
None == [k |-> "None", v |-> ""]
Str(s) == [k |-> "str", v |-> s]
Dict(d) == [k |-> "dict", v |-> d]
List(l) == [k |-> "list", v |-> l]
Num(n) == [k |-> "num", v |-> n]

\* Python truthiness of a stored value: None and empty str/dict/list are false
Truthy(x) == x.k # "None" /\ x.v # ""

\* the channel holds something other than None
Present(x) == x.k # "None"

\* json.dumps of a value that is not already a string: never the empty string
json_dumps(x) == Str("J:" \o x.k \o ":" \o x.v)

\* json.loads: the inverse of json_dumps on its image, "bad" (JSONDecodeError)
\* on every other string
JsonValues == {Dict(""), Dict("obj1"), Dict("obj2"), List(""), List("l1"), Num("7"), None}
json_loads(s) ==
    IF \E j \in JsonValues : json_dumps(j) = s
    THEN CHOOSE j \in JsonValues : json_dumps(j) = s
    ELSE [k |-> "bad", v |-> ""]

\* ------------------------------------------------------------------ state
VARIABLES
    messages,                    \* SupplierState.messages (add_messages channel)
    requirements,                \* SupplierState.requirements
    approved_timeline,           \* SupplierState.approved_timeline
    final_draft,                 \* SupplierState.final_draft
    final_draft_with_suppliers,  \* SupplierState.final_draft_with_suppliers
    pc,                          \* node the graph runs next, "END" between invocations
    visited,                     \* nodes executed so far in the current invocation
    last,                        \* what the last step was
    upd,                         \* keys of the state update the last node returned
    heard,                       \* what the oracle's last response carried
    tool_input,                  \* create_event_tool: the injected draft and the action
    frame,                       \* create_event_tool: position and locals of the run
    calls,                       \* create_event_tool: remote calls issued, in order
    result,                      \* create_event_tool: the value returned, NoResult before
    checkpoints,                 \* MemorySaver: the stored state of each thread key
    thread_id,                   \* configurable.thread_id of the run stepping now
    solo                         \* per run, the state its own steps have produced

vars == <<messages, requirements, approved_timeline, final_draft,
          final_draft_with_suppliers, pc, visited, last, upd, heard,
          tool_input, frame, calls, result,
          checkpoints, thread_id, solo>>

doc == <<requirements, approved_timeline, final_draft, final_draft_with_suppliers>>

\* the variables of a create_event_tool run
recon == <<tool_input, frame, calls, result>>

\* the checkpointer and the runs it serves
threads == <<checkpoints, thread_id, solo>>

\* the agent graph, which the reconciliation steps leave alone
graph == <<messages, doc, pc, visited, last, upd, heard>>

\* no create_event_tool run is in progress
NoResult == [kind |-> "none"]
EmptyDraft == [kind |-> "none", keys |-> {}, aligns |-> FALSE, event_contents |-> <<>>]
NoInput == [draft |-> EmptyDraft, action |-> "none"]
NoFrame ==
    [at |-> "idle", i |-> 0, j |-> 0, s |-> 0, content_to_request_id |-> <<>>,
     contents |-> <<>>, parts_added |-> 0, suppliers_by_content |-> <<>>]
NoRun ==
    /\ tool_input = NoInput
    /\ frame = NoFrame
    /\ calls = <<>>
    /\ result = NoResult

\* ------------------------------------------------------------------ log
HumanMessage == [type |-> "human", content |-> "user", tool_calls |-> 0]
AIMessage(c) == [type |-> "ai", content |-> c, tool_calls |-> 0]
ToolMessage == [type |-> "tool", content |-> "result", tool_calls |-> 0]

\* the add_messages reducer: the turns whose index is in removed are deleted
\* (RemoveMessage(id=m.id)), then the new turns are appended in order
RECURSIVE Keep(_, _, _)
Keep(log, removed, i) ==
    IF i > Len(log) THEN <<>>
    ELSE (IF i \in removed THEN <<>> ELSE <<log[i]>>) \o Keep(log, removed, i + 1)

\* a reducer that puts the new turns first
add_messages_prepends(log, removed, new) == new \o Keep(log, removed, 1)

add_messages(log, removed, new) == Keep(log, removed, 1) \o new

\* removal that misses the newest turn
delete_messages_keeps_last(log) == 1..(Len(log) - 1)

\* delete_messages = [RemoveMessage(id=m.id) for m in state['messages']]
delete_messages(log) == 1..Len(log)

\* ------------------------------------------------------------------ oracle
\* What a response carries, as the caller of a phase sees it: whether it
\* signals finalization, and whether the structured payload is missing
\* ("none"), not JSON ("unparseable"), JSON of the wrong shape ("invalid") or
\* a payload of the phase's schema ("valid"), with the value when there is one.
Heard(signal, payload, val) == [signal |-> signal, payload |-> payload, val |-> val]
NoResponse == Heard(FALSE, "none", None)
\* the oracle call raised instead of answering
Raised == Heard(FALSE, "raise", None)

\* ------------------------------------------------------------------ routers
\* the entry router with the final_draft and approved_timeline tests swapped
route_start_swapped(req, tl, fd, fdws) ==
    IF Truthy(fdws) THEN "FindSuppliersAgent"
    ELSE IF Truthy(tl) THEN "FinalDraft"
    ELSE IF Truthy(fd) THEN "FindSuppliersAgent"
    ELSE IF Truthy(req) THEN "DraftEventTimeline"
    ELSE "GatherRequirements"

\* the entry router without its final_draft test
route_start_no_final_draft(req, tl, fd, fdws) ==
    IF Truthy(fdws) THEN "FindSuppliersAgent"
    ELSE IF Truthy(tl) THEN "FinalDraft"
    ELSE IF Truthy(req) THEN "DraftEventTimeline"
    ELSE "GatherRequirements"

\* the entry router ending the run once final_draft_with_suppliers is set
route_start_ends_when_done(req, tl, fd, fdws) ==
    IF Truthy(fdws) THEN "END"
    ELSE IF Truthy(fd) THEN "FindSuppliersAgent"
    ELSE IF Truthy(tl) THEN "FinalDraft"
    ELSE IF Truthy(req) THEN "DraftEventTimeline"
    ELSE "GatherRequirements"

route_start(req, tl, fd, fdws) ==
    IF Truthy(fdws) THEN "FindSuppliersAgent"
    ELSE IF Truthy(fd) THEN "FindSuppliersAgent"
    ELSE IF Truthy(tl) THEN "FinalDraft"
    ELSE IF Truthy(req) THEN "DraftEventTimeline"
    ELSE "GatherRequirements"

\* the forward edge of GatherRequirements passing over the timeline phase
route_gather_skips_timeline(req) == IF Truthy(req) THEN "FinalDraft" ELSE "END"

route_gather(req) == IF Truthy(req) THEN "DraftEventTimeline" ELSE "END"

\* the forward edge of DraftEventTimeline re-entering the phase
route_draft_timeline_loops(tl) ==
    IF Truthy(tl) THEN "FinalDraft" ELSE "DraftEventTimeline"

route_draft_timeline(tl) == IF Truthy(tl) THEN "FinalDraft" ELSE "END"

\* the forward edge of FinalDraft testing for None instead of emptiness
route_final_draft_is_not_none(fd) == IF Present(fd) THEN "FindSuppliersAgent" ELSE "END"

route_final_draft(fd) == IF Truthy(fd) THEN "FindSuppliersAgent" ELSE "END"

\* ------------------------------------------------------------------ Init
\* the thread ids of the runs
Threads == {1, 2}

\* what the checkpointer holds for a thread no run has stepped on
EmptyCheckpoint ==
    [messages |-> <<>>, requirements |-> None, approved_timeline |-> None,
     final_draft |-> None, final_draft_with_suppliers |-> None,
     pc |-> "END", visited |-> <<>>, last |-> "init", upd |-> {},
     heard |-> NoResponse]

\* a single run on thread 1
OneThread ==
    /\ checkpoints = [k \in Threads |-> EmptyCheckpoint]
    /\ thread_id = 1
    /\ solo = [t \in Threads |-> EmptyCheckpoint]

Init ==
    /\ messages = <<>>
    /\ requirements = None
    /\ approved_timeline = None
    /\ final_draft = None
    /\ final_draft_with_suppliers = None
    /\ pc = "END"
    /\ visited = <<>>
    /\ last = "init"
    /\ upd = {}
    /\ heard = NoResponse
    /\ NoRun
    /\ OneThread

\* The caller invokes the graph on the thread with one new human turn; the
\* conditional entry point picks the first node.
Invoke ==
    /\ pc = "END"
    /\ Len(messages) + 2 <= MaxLog
    /\ messages' = add_messages(messages, {}, <<HumanMessage>>)
    /\ pc' = route_start(requirements, approved_timeline, final_draft,
                         final_draft_with_suppliers)
    /\ visited' = <<>>
    /\ last' = "Invoke"
    /\ upd' = {"messages"}
    /\ heard' = NoResponse
    /\ UNCHANGED doc
    /\ UNCHANGED <<recon, threads>>

\* a node may run as superstep n + 1 of the invocation
WithinLimit_unbounded(n) == TRUE

WithinLimit(n) == n < RecursionLimit

\* ------------------------------------------------------------------ updates
\* A node returns a partial state update; the graph writes the returned
\* channels (last value wins) and feeds "messages" through add_messages.
Update(keys, val, removed, new) ==
    [keys |-> keys, val |-> val, removed |-> removed, new |-> new]

\* return {"messages": [AIMessage(content=...)]}
OnlyMessage(c) == Update({"messages"}, None, {}, <<AIMessage(c)>>)

ErrorTurn == OnlyMessage("error")

\* The graph writes the plan channels the update names and leaves the others
\* as they are.
Written(field, u, cur) == IF field \in u.keys THEN u.val ELSE cur

ApplyUpdate(u) ==
    /\ requirements' = Written("requirements", u, requirements)
    /\ approved_timeline' = Written("approved_timeline", u, approved_timeline)
    /\ final_draft' = Written("final_draft", u, final_draft)
    /\ final_draft_with_suppliers' =
         Written("final_draft_with_suppliers", u, final_draft_with_suppliers)

\* ------------------------------------------------------------------ GatherRequirements
\* What the oracle may answer in GatherRequirements: it raises, answers in
\* plain text, or calls Build with arguments.
BuildArgs ==
    {Str(""), Str("not json"), json_dumps(Dict("obj1")), Dict("obj1"),
     Dict("obj2"), Dict(""), List("l1")}

GatherResponses ==
    {[kind |-> "raise", args |-> None], [kind |-> "plain", args |-> None],
     [kind |-> "build_no_key", args |-> None]}
    \cup {[kind |-> "build", args |-> a] : a \in BuildArgs}

\* format_requirements_table raises (AttributeError on .items()) when the
\* string parses to JSON that is not an object; a string that does not parse
\* gives an error text, not an exception
format_requirements_table_raises(s) ==
    LET j == json_loads(s) IN j.k \notin {"bad", "dict"}

HeardGather(resp) ==
    IF resp.kind = "raise" THEN Raised
    ELSE IF resp.kind = "plain" THEN NoResponse
    ELSE IF resp.kind = "build_no_key" THEN Heard(TRUE, "none", None)
    ELSE IF resp.args.k = "dict" THEN Heard(TRUE, "valid", resp.args)
    ELSE IF resp.args.k = "str" /\ json_loads(resp.args).k = "dict"
         THEN Heard(TRUE, "valid", resp.args)
    ELSE IF resp.args.k = "str" /\ json_loads(resp.args).k = "bad"
         THEN Heard(TRUE, "unparseable", resp.args)
    ELSE Heard(TRUE, "invalid", resp.args)

gather_requirements_node(log, resp) ==
    IF resp.kind = "raise" THEN ErrorTurn
    ELSE IF resp.kind = "plain" THEN OnlyMessage("text")
    ELSE IF resp.kind = "build_no_key" THEN ErrorTurn
    ELSE LET r == IF resp.args.k = "str" THEN resp.args ELSE json_dumps(resp.args) IN
         IF format_requirements_table_raises(r) THEN ErrorTurn
         ELSE Update({"requirements", "formatted_requirements", "messages"}, r,
                     delete_messages(log), <<AIMessage("summary:requirements")>>)

GatherRequirements ==
    /\ pc = "GatherRequirements"
    /\ WithinLimit(Len(visited))
    /\ \E resp \in GatherResponses :
         LET u == gather_requirements_node(messages, resp)
             req == IF "requirements" \in u.keys THEN u.val ELSE requirements
         IN /\ messages' = add_messages(messages, u.removed, u.new)
            /\ ApplyUpdate(u)
            /\ upd' = u.keys
            /\ pc' = route_gather(req)
            /\ heard' = HeardGather(resp)
    /\ visited' = Append(visited, "GatherRequirements")
    /\ last' = "GatherRequirements"
    /\ UNCHANGED <<recon, threads>>

\* ------------------------------------------------------------------ DraftEventTimeline
\* Items the oracle may put in the timeline array:
\*   day1, day2     {"date", "events"} with complete events
\*   dayprefs       a day that also carries "additional_preferences"
\*   prefs1         {"additional_preferences": [...]}
\*   prefs_notlist  {"additional_preferences": "text"}
\*   badevent       a day with an event lacking time/name/duration
\*   other          an object with none of the expected keys
\*   num            a number (the key test raises TypeError)
TimelineItems ==
    {"day1", "day2", "dayprefs", "prefs1", "prefs_notlist", "badevent", "other", "num"}

MaxItems == 2

TimelineBodies ==
    {[kind |-> k, items |-> <<>>] : k \in {"nofence", "badjson", "notlist"}}
    \cup {[kind |-> "list", items |-> it] :
            it \in UNION {[1..n -> TimelineItems] : n \in 0..MaxItems}}

DraftResponses ==
    {[kind |-> k, body |-> [kind |-> "nofence", items |-> <<>>]] : k \in {"raise", "plain"}}
    \cup {[kind |-> "final", body |-> b] : b \in TimelineBodies}

\* index of the first item that stops the validation loop, 0 if none does
RECURSIVE FirstInvalid(_, _)
FirstInvalid(items, i) ==
    IF i > Len(items) THEN 0
    ELSE IF items[i] \in {"prefs_notlist", "badevent", "other", "num"} THEN i
    ELSE FirstInvalid(items, i + 1)

\* extract_timeline_from_response: [raises, timeline]; IndexError,
\* JSONDecodeError and ValueError give [], TypeError leaves the function
extract_timeline_from_response(body) ==
    IF body.kind # "list" THEN [raises |-> FALSE, timeline |-> <<>>]
    ELSE LET i == FirstInvalid(body.items, 1) IN
         IF i = 0 THEN [raises |-> FALSE, timeline |-> body.items]
         ELSE IF body.items[i] = "num" THEN [raises |-> TRUE, timeline |-> <<>>]
         ELSE [raises |-> FALSE, timeline |-> <<>>]

HasPrefs(item) == item \in {"prefs1", "dayprefs"}
HasDate(item) == item \in {"day1", "day2", "dayprefs"}

\* next((item['additional_preferences'] for item in timeline if ...), [])
first_additional_preferences(timeline) ==
    LET withp == SelectSeq(timeline, HasPrefs) IN
    IF withp = <<>> THEN "" ELSE "of:" \o withp[1]

RECURSIVE Join(_, _)
Join(names, i) ==
    IF i > Len(names) THEN ""
    ELSE names[i] \o "," \o Join(names, i + 1)

\* {"timeline": timeline_events, "additional_preferences": additional_preferences}:
\* a dict with two keys, never empty
timeline_dict(timeline) ==
    Dict("timeline=[" \o Join(SelectSeq(timeline, HasDate), 1)
         \o "] additional_preferences=[" \o first_additional_preferences(timeline) \o "]")

HeardDraft(resp) ==
    IF resp.kind = "raise" THEN Raised
    ELSE IF resp.kind = "plain" THEN NoResponse
    ELSE IF resp.body.kind = "nofence" THEN Heard(TRUE, "none", None)
    ELSE IF resp.body.kind = "badjson" THEN Heard(TRUE, "unparseable", None)
    ELSE IF resp.body.kind = "notlist" THEN Heard(TRUE, "invalid", None)
    ELSE IF FirstInvalid(resp.body.items, 1) # 0 THEN Heard(TRUE, "invalid", None)
    ELSE Heard(TRUE, "valid", None)

\* a node that also returns the timeline under "requirements"
draft_timeline_node_rewrites_requirements(log, resp) ==
    IF resp.kind = "raise" THEN ErrorTurn
    ELSE IF resp.kind = "plain" THEN OnlyMessage("text")
    ELSE LET x == extract_timeline_from_response(resp.body) IN
         IF x.raises THEN ErrorTurn
         ELSE Update({"requirements", "approved_timeline", "formatted_timeline", "messages"},
                     timeline_dict(x.timeline),
                     delete_messages(log), <<AIMessage("summary:approved_timeline")>>)

draft_timeline_node(log, resp) ==
    IF resp.kind = "raise" THEN ErrorTurn
    ELSE IF resp.kind = "plain" THEN OnlyMessage("text")
    ELSE LET x == extract_timeline_from_response(resp.body) IN
         IF x.raises THEN ErrorTurn
         ELSE Update({"approved_timeline", "formatted_timeline", "messages"},
                     timeline_dict(x.timeline),
                     delete_messages(log), <<AIMessage("summary:approved_timeline")>>)

DraftEventTimeline ==
    /\ pc = "DraftEventTimeline"
    /\ WithinLimit(Len(visited))
    /\ \E resp \in DraftResponses :
         LET u == draft_timeline_node(messages, resp)
             tl == IF "approved_timeline" \in u.keys THEN u.val ELSE approved_timeline
         IN /\ messages' = add_messages(messages, u.removed, u.new)
            /\ ApplyUpdate(u)
            /\ upd' = u.keys
            /\ pc' = route_draft_timeline(tl)
            /\ heard' = HeardDraft(resp)
    /\ visited' = Append(visited, "DraftEventTimeline")
    /\ last' = "DraftEventTimeline"
    /\ UNCHANGED <<recon, threads>>

\* ------------------------------------------------------------------ FinalDraft
\* JSON the oracle may put in the fenced block of a final draft
FinalDraftJson ==
    {Dict(""), Dict("fd1"), Dict("fd2"), Dict("badshape"), List(""), Num("7"), None}

FinalDraftBodies ==
    {[kind |-> k, json |-> None] : k \in {"nofence", "badjson"}}
    \cup {[kind |-> "json", json |-> j] : j \in FinalDraftJson}

FinalDraftResponses ==
    {[kind |-> k, body |-> [kind |-> "nofence", json |-> None]] : k \in {"raise", "plain"}}
    \cup {[kind |-> "final", body |-> b] : b \in FinalDraftBodies}

\* extract_final_draft_from_response: IndexError and JSONDecodeError give {}
extract_final_draft_from_response(body) ==
    IF body.kind = "json" THEN body.json ELSE Dict("")

\* format_final_draft raises on a value that has no "in" (number, null) and
\* on an object whose contents lack the keys it reads
format_final_draft_raises(fd) ==
    fd.k \in {"num", "None"} \/ fd = Dict("badshape")

HeardFinalDraft(resp) ==
    IF resp.kind = "raise" THEN Raised
    ELSE IF resp.kind = "plain" THEN NoResponse
    ELSE IF resp.body.kind = "nofence" THEN Heard(TRUE, "none", None)
    ELSE IF resp.body.kind = "badjson" THEN Heard(TRUE, "unparseable", None)
    ELSE IF resp.body.json \in {Dict("fd1"), Dict("fd2")}
         THEN Heard(TRUE, "valid", resp.body.json)
    ELSE Heard(TRUE, "invalid", resp.body.json)

\* a node whose assignment state['final_draft'] = final_draft reached the
\* checkpoint although format_final_draft raised afterwards
final_draft_node_keeps_assignment(log, resp) ==
    IF resp.kind = "raise" THEN ErrorTurn
    ELSE IF resp.kind = "plain" THEN OnlyMessage("text")
    ELSE LET fd == extract_final_draft_from_response(resp.body) IN
         IF format_final_draft_raises(fd)
         THEN Update({"final_draft", "messages"}, fd, {}, <<AIMessage("error")>>)
         ELSE Update({"final_draft", "formatted_final_draft", "messages"}, fd,
                     delete_messages(log), <<AIMessage("summary:final_draft")>>)

final_draft_node(log, resp) ==
    IF resp.kind = "raise" THEN ErrorTurn
    ELSE IF resp.kind = "plain" THEN OnlyMessage("text")
    ELSE LET fd == extract_final_draft_from_response(resp.body) IN
         IF format_final_draft_raises(fd) THEN ErrorTurn
         ELSE Update({"final_draft", "formatted_final_draft", "messages"}, fd,
                     delete_messages(log), <<AIMessage("summary:final_draft")>>)

FinalDraft ==
    /\ pc = "FinalDraft"
    /\ WithinLimit(Len(visited))
    /\ \E resp \in FinalDraftResponses :
         LET u == final_draft_node(messages, resp)
             fd == IF "final_draft" \in u.keys THEN u.val ELSE final_draft
         IN /\ messages' = add_messages(messages, u.removed, u.new)
            /\ ApplyUpdate(u)
            /\ upd' = u.keys
            /\ pc' = route_final_draft(fd)
            /\ heard' = HeardFinalDraft(resp)
    /\ visited' = Append(visited, "FinalDraft")
    /\ last' = "FinalDraft"
    /\ UNCHANGED <<recon, threads>>

\* ------------------------------------------------------------------ FindSuppliers
\* Values the oracle may put under "final_draft_with_suppliers"
SupplierDrafts == {Dict(""), Dict("s1"), Dict("s2"), None}

\* What json.loads sees in a response that mentions final_draft_with_suppliers:
\*   nojson    no parseable JSON in the text (JSONDecodeError)
\*   keyed     an object holding the key, with its value
\*   unkeyed   an object or array without the key
\*   num       a number (the key test raises TypeError)
SupplierBodies ==
    {[kind |-> k, val |-> None] : k \in {"nojson", "unkeyed", "num"}}
    \cup {[kind |-> "keyed", val |-> v] : v \in SupplierDrafts}

FindSuppliersResponses ==
    {[kind |-> "raise", marker |-> FALSE, tool_calls |-> 0,
      body |-> [kind |-> "nojson", val |-> None]]}
    \cup {[kind |-> "reply", marker |-> FALSE, tool_calls |-> n,
           body |-> [kind |-> "nojson", val |-> None]] : n \in 0..MaxToolCalls}
    \cup {[kind |-> "reply", marker |-> TRUE, tool_calls |-> n, body |-> b] :
            n \in 0..MaxToolCalls, b \in SupplierBodies}

\* extraction returning the enclosing object instead of the keyed value
extract_returns_enclosing_object(body) ==
    IF body.kind = "keyed" THEN [raises |-> FALSE, value |-> Dict("enclosing")]
    ELSE IF body.kind = "num" THEN [raises |-> TRUE, value |-> None]
    ELSE [raises |-> FALSE, value |-> Dict("")]

\* extract_final_draft_with_suppliers: [raises, value]; JSONDecodeError and
\* a missing key give {}, TypeError leaves the function
extract_final_draft_with_suppliers(body) ==
    IF body.kind = "keyed" THEN [raises |-> FALSE, value |-> body.val]
    ELSE IF body.kind = "num" THEN [raises |-> TRUE, value |-> None]
    ELSE [raises |-> FALSE, value |-> Dict("")]

HeardFindSuppliers(resp) ==
    IF resp.kind = "raise" THEN Raised
    ELSE IF ~resp.marker THEN NoResponse
    ELSE IF resp.body.kind = "nojson" THEN Heard(TRUE, "unparseable", None)
    ELSE IF resp.body.kind = "unkeyed" THEN Heard(TRUE, "none", None)
    ELSE IF resp.body.kind = "num" THEN Heard(TRUE, "invalid", None)
    ELSE IF resp.body.val \in {Dict("s1"), Dict("s2")}
         THEN Heard(TRUE, "valid", resp.body.val)
    ELSE Heard(TRUE, "invalid", resp.body.val)

\* the oracle's response is appended as it is, tool-call requests included
ResponseMessage(resp) ==
    [type |-> "ai", content |-> IF resp.marker THEN "fdws" ELSE "text",
     tool_calls |-> resp.tool_calls]

\* the node extracting on every response, marker or not
find_suppliers_node_always_extracts(resp) ==
    IF resp.kind = "raise" THEN [raises |-> TRUE, update |-> Update({}, None, {}, <<>>)]
    ELSE LET x == extract_final_draft_with_suppliers(resp.body) IN
         [raises |-> x.raises,
          update |-> Update({"messages", "final_draft_with_suppliers"}, x.value, {},
                            <<ResponseMessage(resp)>>)]

\* find_suppliers_node has no exception handler: [raises, update]
find_suppliers_node(resp) ==
    IF resp.kind = "raise" THEN [raises |-> TRUE, update |-> Update({}, None, {}, <<>>)]
    ELSE IF ~resp.marker
         THEN [raises |-> FALSE,
               update |-> Update({"messages"}, None, {}, <<ResponseMessage(resp)>>)]
    ELSE LET x == extract_final_draft_with_suppliers(resp.body) IN
         [raises |-> x.raises,
          update |-> Update({"messages", "final_draft_with_suppliers"}, x.value, {},
                            <<ResponseMessage(resp)>>)]

\* the loop test with its branches exchanged
should_continue_inverted(log) ==
    IF log[Len(log)].tool_calls = 0 THEN "continue" ELSE "end"

\* the loop test never ending the loop
should_continue_never_ends(log) == "continue"

should_continue(log) ==
    IF log[Len(log)].tool_calls = 0 THEN "end" ELSE "continue"

\* room in the explored log for the response, its tool results and the reply
\* that follows them
FitsLog(log, resp) ==
    Len(log) + 1 + resp.tool_calls + (IF resp.tool_calls > 0 THEN 1 ELSE 0) <= MaxLog

FindSuppliersAgent ==
    /\ pc = "FindSuppliersAgent"
    /\ WithinLimit(Len(visited))
    /\ \E resp \in FindSuppliersResponses :
         LET r == find_suppliers_node(resp)
             u == r.update
         IN /\ FitsLog(messages, resp)
            /\ heard' = HeardFindSuppliers(resp)
            /\ IF r.raises
               THEN \* the exception ends the invocation; nothing is written
                    /\ UNCHANGED <<messages, doc>>
                    /\ upd' = {}
                    /\ pc' = "END"
                    /\ last' = "FindSuppliersAgent:raised"
               ELSE /\ messages' = add_messages(messages, u.removed, u.new)
                    /\ ApplyUpdate(u)
                    /\ upd' = u.keys
                    /\ pc' = IF should_continue(messages') = "continue"
                             THEN "FindSuppliersAction" ELSE "END"
                    /\ last' = "FindSuppliersAgent"
    /\ visited' = Append(visited, "FindSuppliersAgent")
    /\ UNCHANGED <<recon, threads>>

\* tool_node: one tool message per requested call, then back to the agent
tool_node(log) == [i \in 1..log[Len(log)].tool_calls |-> ToolMessage]

FindSuppliersAction ==
    /\ pc = "FindSuppliersAction"
    /\ WithinLimit(Len(visited))
    /\ messages' = add_messages(messages, {}, tool_node(messages))
    /\ upd' = {"messages"}
    /\ heard' = NoResponse
    /\ pc' = "FindSuppliersAgent"
    /\ visited' = Append(visited, "FindSuppliersAction")
    /\ last' = "FindSuppliersAction"
    /\ UNCHANGED doc
    /\ UNCHANGED <<recon, threads>>

\* The runtime stops an invocation that still has a node to run after
\* RecursionLimit supersteps and raises GraphRecursionError to the caller;
\* what the completed supersteps wrote stays in the checkpoint.
GraphRecursionError ==
    /\ pc # "END"
    /\ ~WithinLimit(Len(visited))
    /\ pc' = "END"
    /\ last' = "GraphRecursionError"
    /\ upd' = {}
    /\ heard' = NoResponse
    /\ UNCHANGED <<messages, doc, visited>>
    /\ UNCHANGED <<recon, threads>>

Next ==
    \/ Invoke
    \/ GatherRequirements
    \/ DraftEventTimeline
    \/ FinalDraft
    \/ FindSuppliersAgent
    \/ FindSuppliersAction
    \/ GraphRecursionError

Spec == Init /\ [][Next]_vars

\* The runtime runs the node that is due, or stops at the limit, without
\* waiting for anything but the oracle and the tools, which answer or fail.
SpecLive ==
    /\ Spec
    /\ WF_vars(FindSuppliersAgent)
    /\ WF_vars(FindSuppliersAction)
    /\ WF_vars(GraphRecursionError)

\* ------------------------------------------------------------------ runs on two threads
\* number of nodes the run that has executed fewer nodes executes
MaxLag == 1

\* the state of the run stepping now
Checkpoint ==
    [messages |-> messages, requirements |-> requirements,
     approved_timeline |-> approved_timeline, final_draft |-> final_draft,
     final_draft_with_suppliers |-> final_draft_with_suppliers,
     pc |-> pc, visited |-> visited, last |-> last, upd |-> upd, heard |-> heard]

\* a checkpointer filing every thread under one key
checkpoint_key_shared(thread) == 1

\* MemorySaver files the state of a run under its configurable.thread_id
checkpoint_key(thread) == thread

\* the superstep of the current run is not saved yet
Dirty == checkpoints[checkpoint_key(thread_id)] # Checkpoint

\* After every superstep the runtime saves the state of the run under the
\* key of its thread.
Put ==
    /\ Dirty
    /\ checkpoints' = [checkpoints EXCEPT ![checkpoint_key(thread_id)] = Checkpoint]
    /\ solo' = [solo EXCEPT ![thread_id] = Checkpoint]
    /\ UNCHANGED <<graph, recon, thread_id>>

\* The run on thread t takes the next step: it goes on from the state saved
\* under the key of its thread.
Resume(t) ==
    /\ ~Dirty
    /\ t # thread_id
    /\ LET get == checkpoints[checkpoint_key(t)]
       IN /\ messages' = get.messages
          /\ requirements' = get.requirements
          /\ approved_timeline' = get.approved_timeline
          /\ final_draft' = get.final_draft
          /\ final_draft_with_suppliers' = get.final_draft_with_suppliers
          /\ pc' = get.pc
          /\ visited' = get.visited
          /\ last' = get.last
          /\ upd' = get.upd
          /\ heard' = get.heard
    /\ thread_id' = t
    /\ UNCHANGED <<checkpoints, solo, recon>>

\* the run that waits while the current one steps
Waiting == CHOOSE t \in Threads : t # thread_id

\* a node of the run on the current thread may execute
StepThread ==
    /\ ~Dirty
    /\ \/ Len(visited) < MaxLag
       \/ Len(checkpoints[checkpoint_key(Waiting)].visited) <= MaxLag

\* each run is one invocation on a fresh thread
NextThreads ==
    \/ ~Dirty /\ messages = <<>> /\ Invoke
    \/ StepThread /\ GatherRequirements
    \/ StepThread /\ DraftEventTimeline
    \/ StepThread /\ FinalDraft
    \/ StepThread /\ FindSuppliersAgent
    \/ StepThread /\ FindSuppliersAction
    \/ ~Dirty /\ GraphRecursionError
    \/ Put
    \/ \E t \in Threads : Resume(t)

SpecThreads == Init /\ [][NextThreads]_vars

\* ------------------------------------------------------------------ routers on arbitrary documents
\* Values each plan field can hold
ReqValues == {None, Str(""), Str("not json"), json_dumps(Dict("obj1")), json_dumps(Dict(""))}
TimelineValues == {None, timeline_dict(<<>>), timeline_dict(<<"day1", "prefs1">>)}
FinalDraftValues == {None, Dict(""), List(""), Dict("fd1"), Dict("fd2")}
Docs == ReqValues \X TimelineValues \X FinalDraftValues \X SupplierDrafts

\* any document, any short log
InitRoute ==
    /\ \E d \in Docs :
         /\ requirements = d[1]
         /\ approved_timeline = d[2]
         /\ final_draft = d[3]
         /\ final_draft_with_suppliers = d[4]
    /\ messages \in {<<>>, <<HumanMessage>>}
    /\ pc = "END"
    /\ visited = <<>>
    /\ last = "init"
    /\ upd = {}
    /\ heard = NoResponse
    /\ NoRun
    /\ OneThread

Routed(router, to) ==
    /\ pc' = to
    /\ last' = router
    /\ UNCHANGED <<messages, doc, visited, upd, heard>>
    /\ UNCHANGED <<recon, threads>>

ApplyRouteStart ==
    Routed("route_start", route_start(requirements, approved_timeline, final_draft,
                                      final_draft_with_suppliers))
ApplyRouteGather == Routed("route_gather", route_gather(requirements))
ApplyRouteDraftTimeline == Routed("route_draft_timeline", route_draft_timeline(approved_timeline))
ApplyRouteFinalDraft == Routed("route_final_draft", route_final_draft(final_draft))

NextRoute ==
    \/ ApplyRouteStart
    \/ ApplyRouteGather
    \/ ApplyRouteDraftTimeline
    \/ ApplyRouteFinalDraft

SpecRoute == InitRoute /\ [][NextRoute]_vars

\* ------------------------------------------------------------------ reconciliation: create_event_tool
\* Inputs of a run: the final_draft_with_suppliers the graph state injects and
\* the action the oracle asks for.
MaxContents == 2
MaxParts == 2
MaxSuppliers == 2

SeqsUpTo(S, n) == UNION {[1..k -> S] : k \in 0..n}

ContentNames == {"Hotel", "Activity"}

\* the key is not in the dict
Missing == "<missing>"

\* A part as prepare_parts_data reads it: a timeless part needs no date; a
\* timed part carries a parseable date, time and duration; an undated part is
\* not timeless and lacks one of them, so strptime or split raises on it.
PartKinds == {"timeless", "timed", "undated"}

\* el_supplier_id of a potential supplier: "" stands for a missing, null or
\* empty id, all falsy under supplier.get("el_supplier_id")
SupplierIds == {"", "2238295"}

\* An entry of requirements.event_contents. The drafting prompts name the
\* content under the key "content"; the oracle may add a "name" key as well.
RawContents ==
    {[content |-> c, name |-> IF named THEN c ELSE Missing,
      parts |-> ps, potential_suppliers |-> ss] :
        c \in ContentNames, named \in BOOLEAN,
        ps \in SeqsUpTo(PartKinds, MaxParts),
        ss \in SeqsUpTo(SupplierIds, MaxSuppliers)}

Draft(keys, aligns, cs) ==
    [kind |-> "dict", keys |-> keys, aligns |-> aligns, event_contents |-> cs]

\* Drafts with both keys and requirements that align_data_for_application
\* accepts, and the drafts that lack a key or whose requirements lack a field
\* or a parseable date.
Drafts ==
    {Draft({"requirements", "timeline"}, TRUE, cs) : cs \in SeqsUpTo(RawContents, MaxContents)}
    \cup {EmptyDraft,
          Draft({"requirements"}, TRUE, <<>>),
          Draft({"timeline"}, TRUE, <<>>),
          Draft({"requirements", "timeline"}, FALSE, <<>>)}

Actions == {"create", "create_and_add_suppliers", "create_add_suppliers_and_send_requests"}

\* ---- pure helpers of tools_utils.py
prepare_parts_data_raises(parts) == \E k \in DOMAIN parts : parts[k] = "undated"

prepare_event_contents_raises(d) ==
    \E k \in DOMAIN d.event_contents : prepare_parts_data_raises(d.event_contents[k].parts)

prepare_event_contents_reversed(d) ==
    [k \in DOMAIN d.event_contents |->
        LET c == d.event_contents[Len(d.event_contents) + 1 - k]
        IN [name |-> c.content, parts |-> c.parts,
            potential_suppliers |-> c.potential_suppliers]]
prepare_event_contents(d) ==
    [k \in DOMAIN d.event_contents |->
        [name |-> d.event_contents[k].content,
         parts |-> d.event_contents[k].parts,
         potential_suppliers |-> d.event_contents[k].potential_suppliers]]

\* the comprehension of prepare_supplier_data: the ids that are truthy
eligible_suppliers_unfiltered(ss) == ss
RECURSIVE eligible_suppliers(_)
eligible_suppliers(ss) ==
    IF ss = <<>> THEN <<>>
    ELSE IF Head(ss) # "" THEN <<Head(ss)>> \o eligible_suppliers(Tail(ss))
    ELSE eligible_suppliers(Tail(ss))

\* content["name"] on the raw entries raises KeyError when the key is missing
prepare_supplier_data_raises(cs) == \E k \in DOMAIN cs : cs[k].name = Missing

\* dict assignment keeps the position of the first insertion of a key and the
\* value of the last
RECURSIVE dict_set(_, _, _)
dict_set(items, key, val) ==
    IF items = <<>> THEN <<[name |-> key, suppliers |-> val]>>
    ELSE IF Head(items).name = key
         THEN <<[name |-> key, suppliers |-> val]>> \o Tail(items)
         ELSE <<Head(items)>> \o dict_set(Tail(items), key, val)

\* suppliers_by_content as the sequence of its items, in iteration order
RECURSIVE prepare_supplier_data_from(_, _)
prepare_supplier_data_from(cs, items) ==
    IF cs = <<>> THEN items
    ELSE LET suppliers == eligible_suppliers(Head(cs).potential_suppliers)
         IN prepare_supplier_data_from(Tail(cs),
                IF suppliers # <<>> THEN dict_set(items, Head(cs).name, suppliers)
                ELSE items)

prepare_supplier_data(cs) == prepare_supplier_data_from(cs, <<>>)

\* ---- the run
Frame(at, i, j, s, ids, contents, parts_added, plan) ==
    [at |-> at, i |-> i, j |-> j, s |-> s, content_to_request_id |-> ids,
     contents |-> contents, parts_added |-> parts_added, suppliers_by_content |-> plan]

StartFrame == Frame("create_event", 0, 0, 0, <<>>, <<>>, 0, <<>>)

\* {"error": ...}
Error(msg) ==
    [kind |-> "error", error |-> msg, contents |-> <<>>,
     added_suppliers |-> FALSE, sent_requests |-> FALSE]

\* {"event": ..., "contents": [...], "added_suppliers": ..., "sent_requests": ...}
Result(contents, added, sent) ==
    [kind |-> "result", error |-> "", contents |-> contents,
     added_suppliers |-> added, sent_requests |-> sent]

\* an entry that leaves the count of added parts at 0
Entry_without_count(name, request_id, parts_added) ==
    [name |-> name, request_id |-> request_id, parts_added |-> 0]

\* an entry of result["contents"]
Entry(name, request_id, parts_added) ==
    [name |-> name, request_id |-> request_id, parts_added |-> parts_added]

\* one remote call: the endpoint, the content and part it is made for, the
\* request id it is scoped to (or returns), and how the remote answered
Call(op, name, i, j, request_id, outcome) ==
    [op |-> op, name |-> name, content |-> i, part |-> j,
     request_id |-> request_id, outcome |-> outcome, suppliers |-> <<>>]

\* a supplier call carries {"suppliers": [...]}, the ids it attaches
SupplierCall(op, name, request_id, suppliers, outcome) ==
    [Call(op, name, 0, 0, request_id, outcome) EXCEPT !.suppliers = suppliers]

\* how call_api ends: a JSON body the caller accepts, one it does not, or
\* raise_for_status / the connection raising RequestException
EventOutcomes == {"ok", "no_id", "raise"}
ContentOutcomes == {"204", "other", "raise"}
PartOutcomes == {"ok", "empty", "raise"}
SupplierOutcomes == {"ok", "empty", "raise"}

Returns(f, r) == [frame |-> [f EXCEPT !.at = "returned"], result |-> r]
Continues(f) == [frame |-> f, result |-> NoResult]
Goto(step) ==
    /\ frame' = step.frame
    /\ result' = step.result

event_contents == prepare_event_contents(tool_input.draft)

\* sending with every action that attaches suppliers
send_requests_with_any_attachment == tool_input.action # "create"

send_requests == tool_input.action = "create_add_suppliers_and_send_requests"

\* a structure test that looks for 'requirements' only
has_structure_requirements_only(d) == "requirements" \in d.keys

\* Lines 88-89: 'requirements' and 'timeline' must both be in the draft
has_structure(d) == {"requirements", "timeline"} \subseteq d.keys

\* the event_result check of create_event_tool
has_id_unchecked(event_result) == TRUE
has_id(event_result) == event_result = "ok"

\* Lines 162-183: after the last part, the supplier step or the return.
AfterParts(f) ==
    IF tool_input.action = "create" THEN Returns(f, Result(f.contents, FALSE, FALSE))
    ELSE IF prepare_supplier_data_raises(tool_input.draft.event_contents)
         THEN Returns(f, Error("unexpected"))
    ELSE LET plan == prepare_supplier_data(tool_input.draft.event_contents)
         IN IF plan = <<>>
            THEN Returns(f, Result(f.contents, TRUE, send_requests))
            ELSE Continues([f EXCEPT !.at = "add_suppliers", !.s = 1,
                                     !.suppliers_by_content = plan])

\* Lines 139-160 from content i on, up to the next add-part call: a content
\* without parts gets its result entry with no call made.
RECURSIVE PartsFrom(_, _)
PartsFrom(f, i) ==
    IF i > Len(event_contents) THEN AfterParts(f)
    ELSE LET name == event_contents[i].name
         IN IF name \notin DOMAIN f.content_to_request_id
            THEN Returns(f, Error("no_request_id"))
            ELSE IF event_contents[i].parts = <<>>
            THEN PartsFrom([f EXCEPT !.contents =
                              Append(@, Entry(name, f.content_to_request_id[name], 0))],
                           i + 1)
            ELSE Continues([f EXCEPT !.at = "add_part", !.i = i, !.j = 1,
                                     !.parts_added = 0])

\* Lines 108-136 from content i on: the next content-create call, or the parts.
ContentsFrom(f, i) ==
    IF i <= Len(event_contents)
    THEN Continues([f EXCEPT !.at = "add_content", !.i = i])
    ELSE PartsFrom(f, 1)

\* Lines 82-105: the checks on the injected draft, the event-create call and
\* the preparation of the contents.
CreateEvent ==
    /\ frame.at = "create_event"
    /\ LET d == tool_input.draft
       IN IF d.kind = "none"
          THEN Goto(Returns(frame, Error("not_found"))) /\ UNCHANGED calls
          ELSE IF ~has_structure(d)
          THEN Goto(Returns(frame, Error("validation"))) /\ UNCHANGED calls
          ELSE IF ~d.aligns
          THEN Goto(Returns(frame, Error("unexpected"))) /\ UNCHANGED calls
          ELSE \E outcome \in EventOutcomes :
                 /\ calls' = Append(calls, Call("create_event", "", 0, 0, 0, outcome))
                 /\ IF outcome = "raise" THEN Goto(Returns(frame, Error("network")))
                    ELSE IF ~has_id(outcome) THEN Goto(Returns(frame, Error("event")))
                    ELSE IF prepare_event_contents_raises(d)
                    THEN Goto(Returns(frame, Error("unexpected")))
                    ELSE Goto(ContentsFrom(frame, 1))
    /\ UNCHANGED <<tool_input, graph, threads>>

\* Lines 109-119, 132-133: the content-create call for content i.
AddContent ==
    /\ frame.at = "add_content"
    /\ \E outcome \in ContentOutcomes :
         /\ calls' = Append(calls, Call("add_or_update_event_content",
                                        event_contents[frame.i].name, frame.i, 0, 0, outcome))
         /\ IF outcome = "raise" THEN Goto(Returns(frame, Error("network")))
            ELSE IF outcome # "204" THEN Goto(Returns(frame, Error("content")))
            ELSE Goto(Continues([frame EXCEPT !.at = "get_content_details"]))
    /\ UNCHANGED <<tool_input, graph, threads>>

\* the requests the remote holds for the event: the positions in calls of the
\* content-create calls it accepted, which serve as their request ids
RemoteRequests == {k \in DOMAIN calls : calls[k].op = "add_or_update_event_content"
                                         /\ calls[k].outcome = "204"}

\* Lines 121-131, 136: get_content_details fetches the event and takes the
\* first request it lists under the name; every failure inside it comes back
\* as None, and a listed request may carry no offer or no id.
GetContentDetails ==
    /\ frame.at = "get_content_details"
    /\ LET name == event_contents[frame.i].name
       IN \/ \E r \in {k \in RemoteRequests : calls[k].name = name} :
               /\ calls' = Append(calls, Call("get_content_details", name, frame.i, 0, r, "ok"))
               /\ Goto(ContentsFrom(
                    [frame EXCEPT !.content_to_request_id =
                        [n \in DOMAIN @ \cup {name} |-> IF n = name THEN r ELSE @[n]]],
                    frame.i + 1))
          \/ \E outcome \in {"none", "no_id"} :
               /\ calls' = Append(calls, Call("get_content_details", name, frame.i, 0, 0, outcome))
               /\ Goto(Returns(frame, Error(IF outcome = "none" THEN "details"
                                            ELSE "request_id")))
    /\ UNCHANGED <<tool_input, graph, threads>>

\* Lines 145-160: the add-part call for part j of content i; after the last
\* part of a content its result entry is appended.
AddPart ==
    /\ frame.at = "add_part"
    /\ LET name == event_contents[frame.i].name
           request_id == frame.content_to_request_id[name]
       IN \E outcome \in PartOutcomes :
            /\ calls' = Append(calls, Call("add_request_offer_part", name, frame.i, frame.j,
                                           request_id, outcome))
            /\ IF outcome = "raise" THEN Goto(Returns(frame, Error("network")))
               ELSE LET added == frame.parts_added + (IF outcome = "ok" THEN 1 ELSE 0)
                    IN IF frame.j < Len(event_contents[frame.i].parts)
                       THEN Goto(Continues([frame EXCEPT !.j = @ + 1, !.parts_added = added]))
                       ELSE Goto(PartsFrom(
                              [frame EXCEPT !.parts_added = added,
                                            !.contents = Append(@, Entry(name, request_id, added))],
                              frame.i + 1))
    /\ UNCHANGED <<tool_input, graph, threads>>

\* Lines 165-181: the supplier call for item s of suppliers_by_content.
AddSuppliers ==
    /\ frame.at = "add_suppliers"
    /\ LET item == frame.suppliers_by_content[frame.s]
       IN IF item.name \notin DOMAIN frame.content_to_request_id
          THEN Goto(Returns(frame, Error("no_request_id"))) /\ UNCHANGED calls
          ELSE \E outcome \in SupplierOutcomes :
                 /\ calls' = Append(calls,
                        SupplierCall(IF send_requests THEN "add_supplier_to_request_and_send"
                                     ELSE "add_supplier_to_request",
                                     item.name, frame.content_to_request_id[item.name],
                                     item.suppliers, outcome))
                 /\ IF outcome = "raise" THEN Goto(Returns(frame, Error("network")))
                    ELSE IF outcome # "ok" THEN Goto(Returns(frame, Error("suppliers")))
                    ELSE IF frame.s < Len(frame.suppliers_by_content)
                    THEN Goto(Continues([frame EXCEPT !.s = @ + 1]))
                    ELSE Goto(Returns(frame, Result(frame.contents, TRUE, send_requests)))
    /\ UNCHANGED <<tool_input, graph, threads>>

\* tool_node calls create_event_tool with the draft of the graph state
InitRecon ==
    /\ messages = <<>>
    /\ requirements = None
    /\ approved_timeline = None
    /\ final_draft = None
    /\ final_draft_with_suppliers = None
    /\ pc = "FindSuppliersAction"
    /\ visited = <<>>
    /\ last = "init"
    /\ upd = {}
    /\ heard = NoResponse
    /\ tool_input \in [draft : Drafts, action : Actions]
    /\ frame = StartFrame
    /\ calls = <<>>
    /\ result = NoResult
    /\ OneThread

NextRecon ==
    \/ CreateEvent
    \/ AddContent
    \/ GetContentDetails
    \/ AddPart
    \/ AddSuppliers

SpecRecon == InitRecon /\ [][NextRecon]_vars

\* ------------------------------------------------------------------ add_content_part_tool
\* The arguments the oracle passes: an optional string is None, empty or
\* given; the remaining arguments fit the ContentPartInput schema or not.
OptionalStrings == {"None", "", "given"}
PartInputs ==
    [timeless : BOOLEAN, date : OptionalStrings, time : OptionalStrings,
     duration_hours : OptionalStrings, fits_schema : BOOLEAN]

\* all([date, time, duration_hours])
all_given(part) == \A f \in {part.date, part.time, part.duration_hours} : f = "given"

\* Lines 519-552: schema validation, the check of the time fields of a part
\* that is not timeless, then the add-part call.
AddContentPart ==
    /\ frame.at = "add_content_part"
    /\ LET part == tool_input
       IN IF ~part.fits_schema
          THEN Goto(Returns(frame, Error("unexpected"))) /\ UNCHANGED calls
          ELSE IF ~part.timeless /\ ~all_given(part)
          THEN Goto(Returns(frame, Error("validation"))) /\ UNCHANGED calls
          ELSE \E outcome \in PartOutcomes :
                 /\ calls' = Append(calls, Call("add_request_offer_part", "", 0, 0, 0, outcome))
                 /\ IF outcome = "raise" THEN Goto(Returns(frame, Error("unexpected")))
                    ELSE IF outcome = "empty" THEN Goto(Returns(frame, Error("part")))
                    ELSE Goto(Returns(frame, Result(<<>>, FALSE, FALSE)))
    /\ UNCHANGED <<tool_input, graph, threads>>

InitPart ==
    /\ messages = <<>>
    /\ requirements = None
    /\ approved_timeline = None
    /\ final_draft = None
    /\ final_draft_with_suppliers = None
    /\ pc = "FindSuppliersAction"
    /\ visited = <<>>
    /\ last = "init"
    /\ upd = {}
    /\ heard = NoResponse
    /\ tool_input \in PartInputs
    /\ frame = [NoFrame EXCEPT !.at = "add_content_part"]
    /\ calls = <<>>
    /\ result = NoResult
    /\ OneThread

NextPart == AddContentPart

SpecPart == InitPart /\ [][NextPart]_vars

\* ------------------------------------------------------------------ mapper: map_event_data / reverse_map_event_data
\* A nested dict is the function from the paths of its leaves to their
\* values, a path being the sequence of keys from the root; two dicts without
\* empty sub-dicts are equal exactly when these functions are.

\* the paths of EVENT_DATA_MAPPING, as mapping.split('.') yields them
EVENT_DATA_MAPPING ==
    [id |-> <<"event", "id">>,
     event_type |-> <<"event", "name">>,
     start_date |-> <<"event", "fromDate">>,
     end_date |-> <<"event", "toDate">>,
     participants |-> <<"event", "participantAmount">>,
     location |-> <<"event", "eventAddress", "displayAddress">>,
     additional_requirements |-> <<"event", "extraRequirements">>,
     event_contents |-> <<"event", "requests">>,
     content |-> <<"name">>,
     offers |-> <<"requestOffers">>,
     parts |-> <<"offerParts">>,
     name |-> <<"name">>,
     amount |-> <<"amount">>,
     amount_type |-> <<"amountType", "name">>,
     start_time |-> <<"dateTimeFrom">>,
     end_time |-> <<"dateTimeTo">>]

REVERSE_EVENT_DATA_MAPPING ==
    [id |-> <<"event", "id">>,
     event_type |-> <<"event", "name">>,
     start_date |-> <<"event", "fromDate">>,
     end_date |-> <<"event", "toDate">>,
     participants |-> <<"event", "participantAmount">>,
     location |-> <<"event", "eventAddress", "displayAddress">>,
     additional_requirements |-> <<"event", "extraRequirements">>,
     event_contents |-> <<"event", "requests">>,
     content |-> <<"request", "name">>,
     offers |-> <<"request", "requestOffers">>,
     parts |-> <<"offer", "offerParts">>,
     name |-> <<"part", "name">>,
     amount |-> <<"part", "amount">>,
     amount_type |-> <<"part", "amountType", "name">>,
     start_time |-> <<"part", "dateTimeFrom">>,
     end_time |-> <<"part", "dateTimeTo">>]

PathsOf(mapping) == {mapping[k] : k \in DOMAIN mapping}

\* The string branch of map_event_data: follow the keys with dict.get; a
\* missing key, or a value on the way that is not a dict, gives None.
get_path(data, path) == IF path \in DOMAIN data THEN data[path] ELSE "None"

\* The dict branch: one entry per key of the mapping.
map_event_data(data, mapping) == [k \in DOMAIN mapping |-> get_path(data, mapping[k])]

\* reverse_map_event_data: every key of data known to the reverse mapping is
\* written at its path (setdefault builds the dicts on the way); a key without
\* a reverse mapping is skipped.
reverse_map_event_data(data, reverse_mapping) ==
    LET known == DOMAIN data \cap DOMAIN reverse_mapping
    IN [path \in {reverse_mapping[k] : k \in known} |->
           data[CHOOSE k \in known : reverse_mapping[k] = path]]

LeafValues == {"a", "b"}

\* The inputs: the event detail the remote returns (everything under
\* "event"), a dict with a leaf at every path of the mapping, and a dict with
\* a leaf at every path of the reverse mapping.
EventPaths == {path \in PathsOf(EVENT_DATA_MAPPING) : path[1] = "event"}
MapperInputs ==
    [EventPaths -> LeafValues]
    \cup [PathsOf(EVENT_DATA_MAPPING) -> LeafValues]
    \cup [PathsOf(REVERSE_EVENT_DATA_MAPPING) -> LeafValues]

Mapped(mapped, lifted) == [kind |-> "mapped", mapped |-> mapped, lifted |-> lifted]

MapEventData ==
    /\ frame.at = "map_event_data"
    /\ frame' = [frame EXCEPT !.at = "reverse_map_event_data"]
    /\ result' = Mapped(map_event_data(tool_input, EVENT_DATA_MAPPING), <<>>)
    /\ UNCHANGED <<tool_input, calls, graph, threads>>

ReverseMapEventData ==
    /\ frame.at = "reverse_map_event_data"
    /\ frame' = [frame EXCEPT !.at = "returned"]
    /\ result' = Mapped(result.mapped,
                        reverse_map_event_data(result.mapped, REVERSE_EVENT_DATA_MAPPING))
    /\ UNCHANGED <<tool_input, calls, graph, threads>>

InitMapper ==
    /\ messages = <<>>
    /\ requirements = None
    /\ approved_timeline = None
    /\ final_draft = None
    /\ final_draft_with_suppliers = None
    /\ pc = "END"
    /\ visited = <<>>
    /\ last = "init"
    /\ upd = {}
    /\ heard = NoResponse
    /\ tool_input \in MapperInputs
    /\ frame = [NoFrame EXCEPT !.at = "map_event_data"]
    /\ calls = <<>>
    /\ result = NoResult
    /\ OneThread

NextMapper ==
    \/ MapEventData
    \/ ReverseMapEventData

SpecMapper == InitMapper /\ [][NextMapper]_vars

\* ------------------------------------------------------------------ map_event_data on nested data
\* depth of nesting of the data, and length of a dotted path
MaxDepth == 2
MaxPath == 3
\* number of entries of a dict-shaped mapping
MaxEntries == 2

\* JSON values: None, a string, or a dict (a function from its keys)
JNone == [t |-> "None", f |-> <<>>]
JStr(s) == [t |-> s, f |-> <<>>]
JDict(f) == [t |-> "dict", f |-> f]

DataKeys == {"event", "id"}
JScalars == {JNone, JStr("a"), JStr("b")}

DictsOver(V) == {JDict(f) : f \in UNION {[K -> V] : K \in SUBSET DataKeys}}

RECURSIVE JValues(_)
JValues(depth) ==
    IF depth = 0 THEN JScalars ELSE JScalars \cup DictsOver(JValues(depth - 1))

\* mapping.split('.') of a dotted path
DottedPaths == SeqsUpTo(DataKeys, MaxPath) \ {<<>>}

\* a mapping is a dotted path (str), a dict of dotted paths, or neither
Mappings ==
    {[kind |-> "str", keys |-> <<p>>] : p \in DottedPaths}
    \cup {[kind |-> "dict", keys |-> ps] : ps \in SeqsUpTo(DottedPaths, MaxEntries)}
    \cup {[kind |-> "other", keys |-> <<>>]}

\* dict.get(key)
dict_get(value, key) == IF key \in DOMAIN value.f THEN value.f[key] ELSE JNone

\* a walk that goes on from the dict it has reached when a key is absent
RECURSIVE map_event_data_str_skips_absent(_, _)
map_event_data_str_skips_absent(value, keys) ==
    IF keys = <<>> THEN value
    ELSE IF value.t = "dict"
         THEN IF Head(keys) \in DOMAIN value.f
              THEN map_event_data_str_skips_absent(value.f[Head(keys)], Tail(keys))
              ELSE map_event_data_str_skips_absent(value, Tail(keys))
    ELSE JNone

\* Lines 147-155, the str branch: follow the keys with dict.get; a value on
\* the way that is not a dict gives None.
RECURSIVE map_event_data_str(_, _)
map_event_data_str(value, keys) ==
    IF keys = <<>> THEN value
    ELSE IF value.t = "dict"
         THEN map_event_data_str(dict_get(value, Head(keys)), Tail(keys))
    ELSE JNone

\* Lines 156-158: the dict branch maps every entry, anything else gives data
map_event_data_any(data, mapping) ==
    IF mapping.kind = "str"
    THEN [raises |-> FALSE, kind |-> "value",
          value |-> map_event_data_str(data, mapping.keys[1]), entries |-> <<>>]
    ELSE IF mapping.kind = "dict"
    THEN [raises |-> FALSE, kind |-> "dict", value |-> JNone,
          entries |-> [e \in DOMAIN mapping.keys |->
                          map_event_data_str(data, mapping.keys[e])]]
    ELSE [raises |-> FALSE, kind |-> "value", value |-> data, entries |-> <<>>]

MapNested ==
    /\ frame.at = "map_event_data"
    /\ frame' = [frame EXCEPT !.at = "returned"]
    /\ result' = map_event_data_any(tool_input.data, tool_input.mapping)
    /\ UNCHANGED <<tool_input, calls, graph, threads>>

InitNested ==
    /\ messages = <<>>
    /\ requirements = None
    /\ approved_timeline = None
    /\ final_draft = None
    /\ final_draft_with_suppliers = None
    /\ pc = "END"
    /\ visited = <<>>
    /\ last = "init"
    /\ upd = {}
    /\ heard = NoResponse
    /\ tool_input \in [data : JValues(MaxDepth), mapping : Mappings]
    /\ frame = [NoFrame EXCEPT !.at = "map_event_data"]
    /\ calls = <<>>
    /\ result = NoResult
    /\ OneThread

NextNested == MapNested

SpecNested == InitNested /\ [][NextNested]_vars

\* ------------------------------------------------------------------ fetch_suppliers_tool
\* number of categories asked for
MaxCategories == 2

VALID_SORT_FIELDS == {"supplier_name", "rating", "created_at", "checked_at", "created_in_el"}
SortFields == {"supplier_name", "rating", "price"}

ALLOWED_CATEGORIES == {"activity", "hotel", "conference_meeting_space", "event_space",
                       "party_space", "restaurant", "bus", "Transportation", "Catering",
                       "Yoga"}
CategoryNames == {"hotel", "Yoga", "sauna"}

\* A row of SUPPLIER_CATEGORIES, as far as get_category_ids reads it: the
\* asked names that occur in its name or en_name, whether an allowed
\* category starts with its en_name, and whether its name is NULL.
CategoryRows ==
    {[id |-> 1, matches |-> {"hotel"}, allowed |-> TRUE, name_is_null |-> FALSE],
     [id |-> 2, matches |-> {"hotel", "sauna"}, allowed |-> FALSE, name_is_null |-> FALSE],
     [id |-> 3, matches |-> {}, allowed |-> TRUE, name_is_null |-> TRUE]}

\* the tables fetch_supplier_categories may have loaded ({} after an error)
CategoryTables == SUBSET CategoryRows

\* get_category_ids: the ids of the rows that match the name and are
\* allowed; category['name'].lower() raises on a NULL name
get_category_ids(table, category_name) ==
    [raises |-> \E row \in table : row.name_is_null,
     ids |-> {row.id : row \in {x \in table : category_name \in x.matches /\ x.allowed}}]

\* Lines 243-274: the ids of all asked categories that are allowed and
\* resolve; an exception while resolving one marks that category invalid
category_ids(table, categories) ==
    UNION {IF categories[c] \in ALLOWED_CATEGORIES
              /\ ~get_category_ids(table, categories[c]).raises
           THEN get_category_ids(table, categories[c]).ids
           ELSE {} : c \in DOMAIN categories}

\* Lines 229-234: debug_info as the tool builds it (its "steps" entry is
\* commented out)
debug_info == {}

\* Lines 333-338: both handlers append to debug_info["steps"] before they
\* build the error value; the KeyError of a missing entry leaves the tool
fetch_suppliers_except(error) ==
    IF "steps" \in debug_info THEN [kind |-> "error", error |-> error]
    ELSE [kind |-> "raised", error |-> "KeyError"]

\* a sort field check that accepts every field
valid_sort_field_any(sort_by) == TRUE

\* Line 239
valid_sort_field(sort_by) == sort_by \in VALID_SORT_FIELDS

FetchInputs ==
    [sort_by : SortFields,
     categories : SeqsUpTo(CategoryNames, MaxCategories),
     location : {"", "Stockholm"},
     table : CategoryTables]

FetchFrame(at, ids, boundaries) == [at |-> at, category_ids |-> ids, boundaries |-> boundaries]

\* Lines 235-280: the checks made before any request
FetchSuppliersValidate ==
    /\ frame.at = "validate"
    /\ LET ids == category_ids(tool_input.table, tool_input.categories)
       IN IF ~valid_sort_field(tool_input.sort_by)
          THEN /\ frame' = FetchFrame("returned", {}, "None")
               /\ result' = [kind |-> "error", error |-> "sort_by"]
          ELSE IF tool_input.categories # <<>> /\ ids = {}
          THEN /\ frame' = FetchFrame("returned", {}, "None")
               /\ result' = [kind |-> "error", error |-> "categories"]
          ELSE /\ frame' = FetchFrame(IF tool_input.location # "" THEN "get_bounderies"
                                       ELSE "agent_filter", ids, "None")
               /\ result' = result
    /\ UNCHANGED <<tool_input, calls, graph, threads>>

\* Lines 285-291, 308-314: the boundaries request; the boundaries are read
\* when the supplier parameters are built
GetBounderies ==
    /\ frame.at = "get_bounderies"
    /\ \E outcome \in {"ok", "none", "malformed", "raise"} :
         /\ calls' = Append(calls, Call("get_bounderies", tool_input.location, 0, 0, 0, outcome))
         /\ IF outcome = "raise"
            THEN /\ frame' = [frame EXCEPT !.at = "returned"]
                 /\ result' = fetch_suppliers_except("network")
            ELSE IF outcome = "malformed"
            THEN /\ frame' = [frame EXCEPT !.at = "returned"]
                 /\ result' = fetch_suppliers_except("unexpected")
            ELSE /\ frame' = [frame EXCEPT !.at = "agent_filter",
                                           !.boundaries = IF outcome = "ok" THEN "box"
                                                          ELSE "None"]
                 /\ result' = result
    /\ UNCHANGED <<tool_input, graph, threads>>

\* Lines 293-331: the supplier request and the result built from its body
FetchSuppliers ==
    /\ frame.at = "agent_filter"
    /\ \E outcome \in {"ok", "malformed", "raise"} :
         /\ calls' = Append(calls, Call("agent_filter", "", 0, 0, 0, outcome))
         /\ frame' = [frame EXCEPT !.at = "returned"]
         /\ result' = IF outcome = "ok" THEN [kind |-> "result", error |-> ""]
                      ELSE IF outcome = "raise" THEN fetch_suppliers_except("network")
                      ELSE fetch_suppliers_except("unexpected")
    /\ UNCHANGED <<tool_input, graph, threads>>

InitFetch ==
    /\ messages = <<>>
    /\ requirements = None
    /\ approved_timeline = None
    /\ final_draft = None
    /\ final_draft_with_suppliers = None
    /\ pc = "FindSuppliersAction"
    /\ visited = <<>>
    /\ last = "init"
    /\ upd = {}
    /\ heard = NoResponse
    /\ tool_input \in FetchInputs
    /\ frame = FetchFrame("validate", {}, "None")
    /\ calls = <<>>
    /\ result = [kind |-> "none", error |-> ""]
    /\ OneThread

NextFetch ==
    \/ FetchSuppliersValidate
    \/ GetBounderies
    \/ FetchSuppliers

SpecFetch == InitFetch /\ [][NextFetch]_vars

\* ------------------------------------------------------------------ add_suppliers_to_content_tool
\* number of supplier ids handed to the tool
MaxSupplierIds == 2

ContentIds == {11, 12}
AttachInputs ==
    [content_id : ContentIds,
     supplier_ids : SeqsUpTo({1, 2}, MaxSupplierIds),
     send_requests : BOOLEAN]

AttachResult(success, sent) == [kind |-> "result", success |-> success, sent_requests |-> sent]

\* Line 575: the first call attaches the suppliers whatever send_requests
\* is; its return value is not looked at, an exception ends the tool
AttachSuppliers ==
    /\ frame.at = "add_supplier_to_request"
    /\ \E outcome \in SupplierOutcomes :
         /\ calls' = Append(calls, SupplierCall("add_supplier_to_request", "",
                                                tool_input.content_id,
                                                tool_input.supplier_ids, outcome))
         /\ IF outcome = "raise"
            THEN /\ frame' = [frame EXCEPT !.at = "returned"]
                 /\ result' = AttachResult(FALSE, FALSE)
            ELSE /\ frame' = [frame EXCEPT !.at = "second_call"]
                 /\ result' = result
    /\ UNCHANGED <<tool_input, graph, threads>>

\* Lines 577-585: the second call, add-and-send when send_requests is true
\* and the attachment again when it is not; its return value decides
AttachOrSendSuppliers ==
    /\ frame.at = "second_call"
    /\ \E outcome \in SupplierOutcomes :
         /\ calls' = Append(calls,
                SupplierCall(IF tool_input.send_requests
                             THEN "add_supplier_to_request_and_send"
                             ELSE "add_supplier_to_request", "",
                             tool_input.content_id, tool_input.supplier_ids, outcome))
         /\ frame' = [frame EXCEPT !.at = "returned"]
         /\ result' = IF outcome = "ok" THEN AttachResult(TRUE, tool_input.send_requests)
                      ELSE AttachResult(FALSE, FALSE)
    /\ UNCHANGED <<tool_input, graph, threads>>

InitAttach ==
    /\ messages = <<>>
    /\ requirements = None
    /\ approved_timeline = None
    /\ final_draft = None
    /\ final_draft_with_suppliers = None
    /\ pc = "FindSuppliersAction"
    /\ visited = <<>>
    /\ last = "init"
    /\ upd = {}
    /\ heard = NoResponse
    /\ tool_input \in AttachInputs
    /\ frame = [NoFrame EXCEPT !.at = "add_supplier_to_request"]
    /\ calls = <<>>
    /\ result = NoResult
    /\ OneThread

NextAttach ==
    \/ AttachSuppliers
    \/ AttachOrSendSuppliers

SpecAttach == InitAttach /\ [][NextAttach]_vars

\* ------------------------------------------------------------------ get_db_connection
\* largest number of retries the function is called with
MaxRetries == 5

Delays == {0, 1, 5}
DbInputs == [retries : 0..MaxRetries, delay : Delays]

\* psycopg2.connect returns a connection, raises OperationalError, or raises
\* something else
ConnectOutcomes == {"ok", "OperationalError", "other"}

DbCall(op, outcome, seconds) == [op |-> op, outcome |-> outcome, seconds |-> seconds]

\* a loop test that lets one more attempt through
loop_test_inclusive(attempt, retries) == attempt <= retries

\* Line 19: while attempt < retries
loop_test(attempt, retries) == attempt < retries

\* Lines 19-30: one round of the loop: the attempt, and after an
\* OperationalError the count and the wait
Connect ==
    /\ frame.at = "loop"
    /\ loop_test(frame.attempt, tool_input.retries)
    /\ \E outcome \in ConnectOutcomes :
         IF outcome = "ok"
         THEN /\ calls' = Append(calls, DbCall("connect", outcome, 0))
              /\ frame' = [frame EXCEPT !.at = "returned"]
              /\ result' = [kind |-> "connection", error |-> ""]
         ELSE IF outcome = "OperationalError"
         THEN /\ calls' = calls \o <<DbCall("connect", outcome, 0),
                                     DbCall("sleep", "ok", tool_input.delay)>>
              /\ frame' = [frame EXCEPT !.attempt = @ + 1]
              /\ result' = result
         ELSE /\ calls' = Append(calls, DbCall("connect", outcome, 0))
              /\ frame' = [frame EXCEPT !.at = "returned"]
              /\ result' = [kind |-> "raised", error |-> "other"]
    /\ UNCHANGED <<tool_input, graph, threads>>

\* Line 32: the loop is left without a connection
RaiseAfterRetries ==
    /\ frame.at = "loop"
    /\ ~loop_test(frame.attempt, tool_input.retries)
    /\ frame' = [frame EXCEPT !.at = "returned"]
    /\ result' = [kind |-> "raised", error |-> "Exception"]
    /\ UNCHANGED <<tool_input, calls, graph, threads>>

InitDb ==
    /\ messages = <<>>
    /\ requirements = None
    /\ approved_timeline = None
    /\ final_draft = None
    /\ final_draft_with_suppliers = None
    /\ pc = "END"
    /\ visited = <<>>
    /\ last = "init"
    /\ upd = {}
    /\ heard = NoResponse
    /\ tool_input \in DbInputs
    /\ frame = [at |-> "loop", attempt |-> 0]
    /\ calls = <<>>
    /\ result = [kind |-> "none", error |-> ""]
    /\ OneThread

NextDb ==
    \/ Connect
    \/ RaiseAfterRetries

SpecDb == InitDb /\ [][NextDb]_vars

\* psycopg2.connect and time.sleep return or raise; the function does not
\* wait for anything else
SpecDbLive ==
    /\ SpecDb
    /\ WF_vars(Connect)
    /\ WF_vars(RaiseAfterRetries)

\* ------------------------------------------------------------------ claims
\* In the claims below a field "is set" when it holds a non-empty value, which
\* is what the routers test; "is present" when it is not None.

\* the precedence table of the entry router, one row per combination of
\* <<requirements, approved_timeline, final_draft, final_draft_with_suppliers>> set
PrecedenceTable(r, t, f, w) ==
    CASE w -> "FindSuppliersAgent"
      [] ~w /\ f -> "FindSuppliersAgent"
      [] ~w /\ ~f /\ t -> "FinalDraft"
      [] ~w /\ ~f /\ ~t /\ r -> "DraftEventTimeline"
      [] ~w /\ ~f /\ ~t /\ ~r -> "GatherRequirements"

Routes(d) ==
    <<route_start(d[1], d[2], d[3], d[4]), route_gather(d[1]),
      route_draft_timeline(d[2]), route_final_draft(d[3])>>

SamePresence(d, e) == \A i \in 1..4 : Present(d[i]) = Present(e[i])
SameTruthy(d, e) == \A i \in 1..4 : Truthy(d[i]) = Truthy(e[i])

\* C2 as stated: every document with the same fields present as the current
\* one (an empty stored structure counting as present) is routed like it by
\* route_start and by the three forward edges.
C2_RoutingByPresence ==
    \A d \in Docs : SamePresence(d, doc) => Routes(d) = Routes(doc)

\* C2 amended: routing depends only on which fields hold a non-empty value;
\* every document with the same non-empty fields as the current one is routed
\* like it, whatever the stored contents, and a field holding an empty
\* structure is routed as an absent one.
C2_RoutingByTruthiness ==
    \A d \in Docs : SameTruthy(d, doc) => Routes(d) = Routes(doc)

\* C2 witness: FinalDraft has stored an empty structure and the run stopped
\* there, as it does for an absent final_draft
C2_Witness ==
    /\ last = "FinalDraft"
    /\ "final_draft" \in upd
    /\ final_draft = Dict("")
    /\ pc = "END"

\* ------------------------------------------------------------------ steps
\* the step executes the node
Executes(node) == visited' = Append(visited, node)

PhaseNodes == {"GatherRequirements", "DraftEventTimeline", "FinalDraft"}
LoopNodes == {"FindSuppliersAgent", "FindSuppliersAction"}

\* C3 as stated: no step makes a field that holds a value absent or empty
\* again.
C3_MonotonicLattice ==
    [][/\ Truthy(requirements) => Truthy(requirements')
       /\ Truthy(approved_timeline) => Truthy(approved_timeline')
       /\ Truthy(final_draft) => Truthy(final_draft')
       /\ Truthy(final_draft_with_suppliers) => Truthy(final_draft_with_suppliers')]_vars

C5_AssignedOnce ==
    [][/\ (Executes("DraftEventTimeline") /\ "approved_timeline" \in upd')
            => ~Present(approved_timeline)
       /\ (Executes("FinalDraft") /\ "final_draft" \in upd')
            => ~Present(final_draft)]_vars

FieldOf(node) ==
    CASE node = "GatherRequirements" -> "requirements"
      [] node = "DraftEventTimeline" -> "approved_timeline"
      [] node = "FinalDraft" -> "final_draft"
      [] node = "FindSuppliersAgent" -> "final_draft_with_suppliers"

SummaryOf(node) == AIMessage("summary:" \o FieldOf(node))

ValueOf(field) ==
    CASE field = "requirements" -> requirements
      [] field = "approved_timeline" -> approved_timeline
      [] field = "final_draft" -> final_draft
      [] field = "final_draft_with_suppliers" -> final_draft_with_suppliers

FinalizingNodes == PhaseNodes \cup {"FindSuppliersAgent"}

\* C9 as stated: after a step of any phase, the FindSuppliers loop included,
\* that set the phase's plan field from the oracle's structured output, the
\* log is exactly one summary turn.
C9_CompactionEveryPhase ==
    \A n \in FinalizingNodes :
        (last = n /\ FieldOf(n) \in upd /\ heard.signal /\ heard.payload = "valid")
            => Len(messages) = 1 /\ messages[1].content = "summary:" \o FieldOf(n)

\* C9 amended: a step of GatherRequirements, DraftEventTimeline or FinalDraft
\* assigns its plan field exactly when the same update replaces the whole log
\* by the one summary turn of that phase, and the field then holds a value
\* (never one without the other); a FindSuppliers step that assigns
\* final_draft_with_suppliers does not compact: it keeps every turn and
\* appends the oracle's response.
C9_CompactionInPhases ==
    [][/\ \A n \in PhaseNodes :
            Executes(n) =>
              /\ (FieldOf(n) \in upd') <=> (messages' = <<SummaryOf(n)>>)
              /\ (FieldOf(n) \in upd') => Present(ValueOf(FieldOf(n))')
       /\ (Executes("FindSuppliersAgent") /\ "final_draft_with_suppliers" \in upd')
            => /\ Len(messages') = Len(messages) + 1
               /\ SubSeq(messages', 1, Len(messages)) = messages
               /\ messages'[Len(messages')].content = "fdws"]_vars

\* C9 witness: an invocation that started at FinalDraft with a log of
\* several turns finalized, leaving the one summary turn
C9_Witness ==
    /\ last = "FinalDraft"
    /\ visited = <<"FinalDraft">>
    /\ "final_draft" \in upd
    /\ messages = <<SummaryOf("FinalDraft")>>

\* C10 as stated: in DraftEventTimeline, FinalDraft and FindSuppliers a
\* response that signals finalization without a payload that can be located,
\* parsed and validated sets no plan field, leaves the log uncompacted and
\* appends one plain turn to it (no summary turn); the phase does not fail.
C10_FailOpen ==
    \A n \in {"DraftEventTimeline", "FinalDraft", "FindSuppliersAgent"} :
        (last \in {n, n \o ":raised"} /\ heard.signal /\ heard.payload # "valid")
            => /\ last = n
               /\ upd = {"messages"}
               /\ Len(messages) >= 2
               /\ messages[Len(messages)].content \in {"text", "fdws", "error"}

\* ------------------------------------------------------------------ log frame
IsPrefix(a, b) == Len(a) <= Len(b) /\ SubSeq(b, 1, Len(a)) = a

AgentNodes == PhaseNodes \cup {"FindSuppliersAgent"}

\* C11: a step of a phase whose oracle response carries no finalize signal
\* leaves the four plan fields unchanged and appends exactly the utterance to
\* the log.
C11_NoMarkerNoChange ==
    [][\A n \in AgentNodes :
         (Executes(n) /\ heard' = NoResponse)
           => /\ doc' = doc
              /\ upd' = {"messages"}
              /\ Len(messages') = Len(messages) + 1
              /\ IsPrefix(messages, messages')
              /\ messages'[Len(messages')].type = "ai"
              /\ messages'[Len(messages')].content = "text"]_vars

\* C11 witness: FinalDraft answered without the marker in a later
\* invocation; the log grew and final_draft is still absent
C11_Witness ==
    /\ last = "FinalDraft"
    /\ heard = NoResponse
    /\ ~Present(final_draft)
    /\ Len(messages) >= 3
    /\ messages[Len(messages)].content = "text"

\* a step of a phase that assigns the phase's plan field and leaves the one
\* summary turn
Compacts ==
    \E n \in PhaseNodes :
        /\ Executes(n)
        /\ FieldOf(n) \in upd'
        /\ messages' = <<SummaryOf(n)>>

\* C12: every step either keeps all existing turns in place and in order and
\* only appends, or is the compaction of a finalizing step, which removes all
\* turns at once; a step that assigns no plan field of its phase never
\* removes a turn.
C12_AppendOnly ==
    [][/\ IsPrefix(messages, messages') \/ Compacts
       /\ (\A n \in PhaseNodes : Executes(n) => FieldOf(n) \notin upd')
            => IsPrefix(messages, messages')]_vars

\* C12 witness: the tool results of a request were appended behind the
\* turns already in the log
C12_Witness ==
    /\ last = "FindSuppliersAction"
    /\ Len(messages) >= 4
    /\ messages[Len(messages)].type = "tool"
    /\ messages[1].content = "summary:final_draft"

\* C13: a FindSuppliersAgent step that returns a response moves to
\* FindSuppliersAction exactly when the response requests at least one tool
\* call and ends the invocation exactly when it requests none;
\* FindSuppliersAction appends one result per requested call and returns to
\* FindSuppliersAgent.
C13_ActionLoop ==
    [][/\ (Executes("FindSuppliersAgent") /\ last' = "FindSuppliersAgent")
            => LET reply == messages'[Len(messages')] IN
               /\ reply.type = "ai"
               /\ (pc' = "FindSuppliersAction") <=> (reply.tool_calls > 0)
               /\ (pc' = "END") <=> (reply.tool_calls = 0)
       /\ Executes("FindSuppliersAction")
            => LET request == messages[Len(messages)] IN
               /\ pc' = "FindSuppliersAgent"
               /\ request.tool_calls > 0
               /\ Len(messages') = Len(messages) + request.tool_calls
               /\ IsPrefix(messages, messages')
               /\ \A i \in (Len(messages) + 1)..Len(messages') :
                    messages'[i].type = "tool"]_vars

\* C13 witness: two requested calls were executed and the loop is back at
\* the agent
C13_Witness ==
    /\ last = "FindSuppliersAction"
    /\ pc = "FindSuppliersAgent"
    /\ Len(messages) >= 3
    /\ messages[Len(messages)].type = "tool"
    /\ messages[Len(messages) - 1].type = "tool"
    /\ messages[Len(messages) - 2].tool_calls = 2

\* C14: a response without tool-call requests ends the loop at once, no
\* invocation runs more than RecursionLimit supersteps, and the loop, once
\* entered, always comes to an end.
C14_LoopTerminates ==
    /\ [][(Executes("FindSuppliersAgent") /\ last' = "FindSuppliersAgent"
             /\ messages'[Len(messages')].tool_calls = 0) => pc' = "END"]_vars
    /\ [](Len(visited) <= RecursionLimit)
    /\ (pc \in LoopNodes) ~> (pc = "END")

\* C14 witness: the loop executed a request and then ended on a response
\* without requests
C14_Witness ==
    /\ last = "FindSuppliersAgent"
    /\ pc = "END"
    /\ Len(visited) >= 3
    /\ visited[Len(visited) - 1] = "FindSuppliersAction"
    /\ messages[Len(messages)].tool_calls = 0

\* C15: no invocation runs more than RecursionLimit supersteps; when a node
\* is still due after that many, the only step is the error raised to the
\* caller, which ends the invocation and writes nothing.
C15_LoopExhausted ==
    [][/\ Len(visited') <= RecursionLimit
       /\ (pc # "END" /\ Len(visited) >= RecursionLimit)
            => /\ last' = "GraphRecursionError"
               /\ pc' = "END"
               /\ messages' = messages
               /\ doc' = doc]_vars

\* C15 witness: the oracle requested an action on every response and the
\* invocation was stopped with the error
C15_Witness ==
    /\ last = "GraphRecursionError"
    /\ pc = "END"
    /\ Len(visited) = RecursionLimit
    /\ visited[Len(visited)] = "FindSuppliersAction"
\* ------------------------------------------------------------------ claims on create_event_tool
RemoteOps == {"add_or_update_event_content", "get_content_details",
              "add_request_offer_part", "add_supplier_to_request",
              "add_supplier_to_request_and_send"}

\* C16: when the event-create call raises or answers without an id, the run
\* returns an error value and the event-create call stays the only remote
\* call it has issued: no content, fetch-detail, part or supplier call.
C16_EventFailureAborts ==
    (calls # <<>> /\ calls[1].op = "create_event" /\ calls[1].outcome # "ok")
        => /\ Len(calls) = 1
           /\ frame.at = "returned"
           /\ result.kind = "error"

\* the event-create call of a draft with two contents answered without an id
C16_Witness ==
    /\ Len(tool_input.draft.event_contents) = 2
    /\ calls = <<Call("create_event", "", 0, 0, 0, "no_id")>>
    /\ result = Error("event")

\* the step of the reconciliation a remote call belongs to
Phase(call) ==
    CASE call.op = "create_event" -> 1
      [] call.op \in {"add_or_update_event_content", "get_content_details"} -> 2
      [] call.op = "add_request_offer_part" -> 3
      [] OTHER -> 4

Declared == tool_input.draft.event_contents

\* C17: the remote calls of a run are issued in the order of the steps: the
\* event-create call first and once; then, content by content in declaration
\* order, the content-create call followed by its fetch-detail call; then the
\* part calls, content by content and part by part in declaration order; then
\* the supplier calls. No call of a step precedes a call of an earlier step.
C17_CallOrder ==
    /\ calls # <<>> => calls[1].op = "create_event"
    /\ \A p \in DOMAIN calls :
         /\ p > 1 => /\ calls[p].op # "create_event"
                     /\ Phase(calls[p - 1]) <= Phase(calls[p])
         /\ Phase(calls[p]) = 2 =>
               \* the 1st, 2nd, ... content call sits at position 2, 3, ...
               /\ calls[p].content = p \div 2
               /\ calls[p].content \in DOMAIN Declared
               /\ calls[p].name = Declared[calls[p].content].content
               /\ calls[p].op = IF p % 2 = 0 THEN "add_or_update_event_content"
                                 ELSE "get_content_details"
         \* a part or supplier call comes after both calls of every content
         /\ Phase(calls[p]) >= 3 =>
               /\ p > 1 + 2 * Len(Declared)
               /\ \A i \in DOMAIN Declared :
                     /\ calls[2 * i].op = "add_or_update_event_content"
                     /\ calls[2 * i + 1].op = "get_content_details"
         \* a supplier call comes after the part call of every part
         /\ Phase(calls[p]) = 4 =>
               \A i \in DOMAIN Declared : \A j \in DOMAIN Declared[i].parts :
                  \E q \in 1..(p - 1) : /\ calls[q].op = "add_request_offer_part"
                                          /\ calls[q].content = i
                                          /\ calls[q].part = j
         /\ Phase(calls[p]) = 3 =>
               /\ calls[p].content \in DOMAIN Declared
               /\ calls[p].name = Declared[calls[p].content].content
               /\ calls[p].part \in DOMAIN Declared[calls[p].content].parts
               /\ IF Phase(calls[p - 1]) = 3 /\ calls[p - 1].content = calls[p].content
                  THEN calls[p].part = calls[p - 1].part + 1
                  ELSE /\ calls[p].part = 1
                       /\ Phase(calls[p - 1]) = 3 => calls[p - 1].content < calls[p].content
               \* the contents before it have had all their part calls
               /\ \A i \in 1..(calls[p].content - 1) :
                     \A j \in DOMAIN Declared[i].parts :
                       \E q \in 1..(p - 1) : /\ calls[q].op = "add_request_offer_part"
                                               /\ calls[q].content = i
                                               /\ calls[q].part = j

\* a run over two differently named contents with parts that reached a
\* supplier call
C17_Witness ==
    /\ Len(Declared) = 2
    /\ Declared[1].content # Declared[2].content
    /\ Len(Declared[1].parts) = 2
    /\ Len(Declared[2].parts) = 1
    /\ Len(calls) = 9
    /\ calls[9].op = "add_supplier_to_request"

\* the calls of the run made to one of the endpoints ops
CallsTo(ops) == {p \in DOMAIN calls : calls[p].op \in ops}

NoRemoteFailure == \A p \in DOMAIN calls : calls[p].outcome \in {"ok", "204"}

\* a draft as the drafting prompts lay it out: both keys, requirements that
\* align, parts that are timeless or dated
WellFormed(d) ==
    /\ d.kind = "dict"
    /\ {"requirements", "timeline"} \subseteq d.keys
    /\ d.aligns
    /\ ~prepare_event_contents_raises(d)

DeclaredParts == UNION {{<<i, j>> : j \in DOMAIN Declared[i].parts} : i \in DOMAIN Declared}

\* the contents with at least one eligible supplier
WithEligibleSupplier ==
    {i \in DOMAIN Declared : eligible_suppliers(Declared[i].potential_suppliers) # <<>>}

\* C18: a finished run with supplier attachment requested and no remote
\* failure has issued exactly 1 event-create call, one content-create call per
\* content, one part call per part and one supplier call per content that has
\* an eligible supplier.
C18_CallCounts ==
    (/\ frame.at = "returned"
     /\ WellFormed(tool_input.draft)
     /\ tool_input.action # "create"
     /\ NoRemoteFailure)
        => /\ Cardinality(CallsTo({"create_event"})) = 1
           /\ Cardinality(CallsTo({"add_or_update_event_content"})) = Len(Declared)
           /\ Cardinality(CallsTo({"add_request_offer_part"})) = Cardinality(DeclaredParts)
           /\ Cardinality(CallsTo({"add_supplier_to_request",
                                    "add_supplier_to_request_and_send"}))
                = Cardinality(WithEligibleSupplier)

\* part j2 of content i2 is declared after part j1 of content i1
PartAfter(i1, j1, i2, j2) == i2 > i1 \/ (i2 = i1 /\ j2 > j1)

PartCallFailed(p) ==
    /\ calls[p].op = "add_request_offer_part"
    /\ calls[p].outcome \in {"empty", "raise"}

\* C19: when the add-part call of a part fails, by an error raised or by an
\* empty answer, the finished run has still issued the add-part call of every
\* part declared after it, in the same content and in the later ones, and the
\* result it returns does not count the failed part in parts_added.
C19_PartFailureNotFatal ==
    \A p \in DOMAIN calls :
       (/\ frame.at = "returned"
        /\ PartCallFailed(p)
        /\ \E ij \in DeclaredParts : PartAfter(calls[p].content, calls[p].part, ij[1], ij[2]))
           => /\ \A ij \in DeclaredParts :
                   PartAfter(calls[p].content, calls[p].part, ij[1], ij[2])
                      => \E q \in DOMAIN calls : /\ calls[q].op = "add_request_offer_part"
                                                  /\ calls[q].content = ij[1]
                                                  /\ calls[q].part = ij[2]
              /\ result.kind = "result" =>
                   result.contents[calls[p].content].parts_added
                      < Len(Declared[calls[p].content].parts)

\* C20: when a content, fetch-detail, part or supplier call fails after the
\* event was created, the run returns the structured result with its
\* per-content entries, not a bare error value.
C20_PartialFailureStructured ==
    (/\ frame.at = "returned"
     /\ calls # <<>>
     /\ calls[1].outcome = "ok"
     /\ \E p \in DOMAIN calls : calls[p].op \in RemoteOps
                                   /\ calls[p].outcome \notin {"ok", "204"})
        => result.kind = "result"

\* the request id the fetch-detail call of content i returned
Fetched(i) == {calls[p].request_id : p \in {q \in DOMAIN calls :
                    /\ calls[q].op = "get_content_details"
                    /\ calls[q].content = i
                    /\ calls[q].outcome = "ok"}}

\* the calls to the endpoint op scoped to a request id fetched for content i
ScopedTo(op, i) == {p \in CallsTo({op}) : calls[p].request_id \in Fetched(i)}

\* C21: a finished run with supplier attachment requested and no remote
\* failure has issued, for each content with an eligible supplier, exactly one
\* supplier-attachment call scoped to the request id of that content and, when
\* sending is requested, a send call for it besides; a content without
\* eligible suppliers has received no supplier call.
C21_SupplierAttachment ==
    (/\ frame.at = "returned"
     /\ WellFormed(tool_input.draft)
     /\ tool_input.action # "create"
     /\ NoRemoteFailure)
        => \A i \in DOMAIN Declared :
             IF i \in WithEligibleSupplier
             THEN /\ Cardinality(ScopedTo("add_supplier_to_request", i)) = 1
                  /\ send_requests =>
                        Cardinality(ScopedTo("add_supplier_to_request_and_send", i)) = 1
             ELSE /\ ScopedTo("add_supplier_to_request", i) = {}
                  /\ ScopedTo("add_supplier_to_request_and_send", i) = {}

SupplierOps == {"add_supplier_to_request", "add_supplier_to_request_and_send"}

\* C22: the supplier list of every supplier call holds exactly the
\* potential suppliers of a content declared under the name the call is made
\* for whose el_supplier_id is non-empty, in their order; a supplier with a
\* missing, null or empty el_supplier_id is in no supplier call.
C22_SupplierEligibility ==
    \A p \in CallsTo(SupplierOps) :
       /\ \A k \in DOMAIN calls[p].suppliers : calls[p].suppliers[k] # ""
       /\ calls[p].suppliers # <<>>
       /\ \E i \in DOMAIN Declared :
             /\ Declared[i].content = calls[p].name
             /\ \A id \in SupplierIds \ {""} :
                   (\E k \in DOMAIN calls[p].suppliers : calls[p].suppliers[k] = id)
                      <=> (\E k \in DOMAIN Declared[i].potential_suppliers :
                              Declared[i].potential_suppliers[k] = id)
             /\ Len(calls[p].suppliers)
                  = Cardinality({k \in DOMAIN Declared[i].potential_suppliers :
                                    Declared[i].potential_suppliers[k] # ""})

\* a supplier call was made for a content that lists a supplier without an
\* id before one with an id
C22_Witness ==
    \E p \in CallsTo(SupplierOps) :
       /\ Len(Declared) = 1
       /\ Declared[1].content = calls[p].name
       /\ Declared[1].potential_suppliers = <<"", "2238295">>
       /\ calls[p].suppliers = <<"2238295">>

\* the draft holds a part that is not timeless and lacks its date, time or
\* duration
HasUndatedPart == \E ij \in DeclaredParts : Declared[ij[1]].parts[ij[2]] = "undated"

\* C23: a create_event_tool run on a draft that holds a part with timeless =
\* false and no time, date or duration issues no remote call at all, not even
\* the event-create call, and returns an error value.
C23_UndatedPartRejected ==
    HasUndatedPart => /\ calls = <<>>
                      /\ frame.at = "returned" => result.kind = "error"

\* The add_content_part_tool half of C23: a part that is not timeless and
\* lacks one of its time fields gets a validation error and no remote call.
AddContentPartValidates ==
    (~tool_input.timeless /\ ~all_given(tool_input))
        => /\ calls = <<>>
           /\ frame.at = "returned" => result.kind = "error"

\* ------------------------------------------------------------------ claims on failures inside a phase
\* C24: when the oracle invocation of a phase node raises, the node catches
\* the exception and returns an error turn: the turn is appended to the log,
\* the plan fields stay as they are, and no exception leaves the node.
C24_OracleFailureCaught ==
    [][(heard' = Raised /\ \E n \in AgentNodes : Executes(n))
          => /\ last' \in AgentNodes
             /\ messages' = Append(messages, AIMessage("error"))
             /\ UNCHANGED doc]_vars

\* the three phases that wrap the oracle invocation in try / except
C24_CaughtInPhases ==
    [][(heard' = Raised /\ \E n \in PhaseNodes : Executes(n))
          => /\ last' \in PhaseNodes
             /\ messages' = Append(messages, AIMessage("error"))
             /\ UNCHANGED doc]_vars

\* the step just taken failed: the oracle invocation raised, or the node
\* returned the error turn of its except clause
StepFailed ==
    /\ \E n \in AgentNodes : Executes(n)
    /\ \/ heard' = Raised
       \/ /\ messages' # <<>>
          /\ messages'[Len(messages')] = AIMessage("error")

\* C25: a phase step that fails, also after the payload was extracted and
\* before the summary was built, leaves the plan fields as they were and the
\* log uncompacted: the log is the old log, with at most the one error turn
\* appended.
C25_NoPartialMutation ==
    [][StepFailed => /\ UNCHANGED doc
                     /\ messages' \in {messages, Append(messages, AIMessage("error"))}]_vars

\* FinalDraft extracted a payload on which format_final_draft raised: the
\* error turn follows the user turn and final_draft is still unset
C25_Witness ==
    /\ last = "FinalDraft"
    /\ heard = Heard(TRUE, "invalid", Num("7"))
    /\ Len(messages) >= 2
    /\ messages[Len(messages)] = AIMessage("error")
    /\ final_draft = None
    /\ Truthy(approved_timeline)

\* the attempts of the remote call made at position p: the calls to the same
\* endpoint for the same content and part
Attempts(p) == {q \in DOMAIN calls : /\ calls[q].op = calls[p].op
                                      /\ calls[q].name = calls[p].name
                                      /\ calls[q].content = calls[p].content
                                      /\ calls[q].part = calls[p].part}

\* C26: a remote call that failed with a network or HTTP error has been
\* attempted again before the run reported the failure: the finished run
\* holds more than one attempt of it.
C26_FailedCallRetried ==
    \A p \in DOMAIN calls :
       (frame.at = "returned" /\ calls[p].outcome = "raise")
           => Cardinality(Attempts(p)) > 1

\* what the code does instead: whatever its outcome, no remote call of a
\* run is attempted twice
C26_SingleAttempt == \A p \in DOMAIN calls : Attempts(p) = {p}

\* ------------------------------------------------------------------ claims on the mapper
\* C27: lifting the projection of x with the reverse mapping gives x back,
\* for every x that has a leaf at each path of the mapping.
C27_RoundTrip ==
    (frame.at = "returned" /\ DOMAIN tool_input = PathsOf(EVENT_DATA_MAPPING))
        => result.lifted = tool_input

\* what survives the round trip is the part of x under "event": the eight
\* keys whose path is the same in both mappings
C27_EventRoundTrip ==
    frame.at = "returned"
        => \A path \in EventPaths :
              path \in DOMAIN tool_input
                 => path \in DOMAIN result.lifted /\ result.lifted[path] = tool_input[path]

\* ------------------------------------------------------------------ claims on the frame of a phase
OtherFields(node) ==
    {"requirements", "approved_timeline", "final_draft", "final_draft_with_suppliers"}
        \ {IF node = "FindSuppliersAction" THEN "final_draft_with_suppliers"
            ELSE FieldOf(node)}

FieldUnchanged(field) ==
    CASE field = "requirements" -> requirements' = requirements
      [] field = "approved_timeline" -> approved_timeline' = approved_timeline
      [] field = "final_draft" -> final_draft' = final_draft
      [] field = "final_draft_with_suppliers" ->
            final_draft_with_suppliers' = final_draft_with_suppliers

\* C29: a step of a phase changes no plan field but the phase's own:
\* GatherRequirements only requirements, DraftEventTimeline only
\* approved_timeline, FinalDraft only final_draft, FindSuppliersAgent and
\* FindSuppliersAction only final_draft_with_suppliers; requirements, once
\* captured, is not changed by the three later phases.
C29_OwnFieldOnly ==
    [][\A n \in AgentNodes \cup {"FindSuppliersAction"} :
          Executes(n) => /\ \A f \in OtherFields(n) : FieldUnchanged(f)
                         /\ upd' \cap OtherFields(n) = {}]_vars

\* the run went through every phase and holds all four fields
C29_Witness ==
    /\ last = "FindSuppliersAgent"
    /\ Len(visited) >= 2
    /\ Truthy(requirements)
    /\ Truthy(approved_timeline)
    /\ Truthy(final_draft)
    /\ Truthy(final_draft_with_suppliers)

\* ------------------------------------------------------------------ claims on fetch-after-write scoping
FetchFailed == \E p \in DOMAIN calls : /\ calls[p].op = "get_content_details"
                                       /\ calls[p].outcome # "ok"

\* the contents of the draft a supplier call is made for: those of its name
\* whose eligible suppliers it carries
SuppliedBy(p) == {i \in DOMAIN event_contents :
                     /\ event_contents[i].name = calls[p].name
                     /\ eligible_suppliers(Declared[i].potential_suppliers) = calls[p].suppliers}

\* C30: every part call made for a content is scoped to a request id fetched
\* for that same content, every supplier call to a request id fetched for
\* the content whose suppliers it carries (also when two contents share a
\* name), and after a fetch that found no content or no request id no part
\* or supplier call is made.
C30_FetchAfterWriteScoping ==
    /\ \A p \in CallsTo({"add_request_offer_part"}) :
          calls[p].request_id \in Fetched(calls[p].content)
    /\ \A p \in CallsTo(SupplierOps) :
          \E i \in SuppliedBy(p) : calls[p].request_id \in Fetched(i)
    /\ FetchFailed => CallsTo({"add_request_offer_part"} \cup SupplierOps) = {}

\* what holds instead: every part and supplier call is scoped to the request
\* id fetched last under the name of its content, and none is made after a
\* failed fetch
LastFetched(name) ==
    LET ps == {p \in DOMAIN calls : /\ calls[p].op = "get_content_details"
                                    /\ calls[p].name = name
                                    /\ calls[p].outcome = "ok"}
    IN IF ps = {} THEN 0
       ELSE calls[CHOOSE p \in ps : \A q \in ps : q <= p].request_id

C30_ScopedByName ==
    /\ \A p \in CallsTo({"add_request_offer_part"} \cup SupplierOps) :
          /\ calls[p].request_id = LastFetched(calls[p].name)
          /\ calls[p].request_id \in RemoteRequests
    /\ FetchFailed => CallsTo({"add_request_offer_part"} \cup SupplierOps) = {}

Nothing == [t |-> "nothing", f |-> <<>>]

Along(data, keys) ==
    LET at[n \in 0..Len(keys)] ==
            IF n = 0 THEN data
            ELSE IF at[n - 1].t = "dict" /\ keys[n] \in DOMAIN at[n - 1].f
                 THEN at[n - 1].f[keys[n]]
                 ELSE Nothing
    IN at

Projected(data, keys) ==
    LET end == Along(data, keys)[Len(keys)]
    IN IF end = Nothing THEN JNone ELSE end

\* C31: map_event_data with a dotted path returns None when a key of the
\* path is absent or a value on the way is not a dict, and the value stored
\* at the path otherwise; with a dict of paths it does so for each entry; it
\* does not raise.
C31_PathProjection ==
    frame.at = "returned" =>
       /\ ~result.raises
       /\ tool_input.mapping.kind = "str" =>
             result.value = Projected(tool_input.data, tool_input.mapping.keys[1])
       /\ tool_input.mapping.kind = "dict" =>
             /\ DOMAIN result.entries = DOMAIN tool_input.mapping.keys
             /\ \A e \in DOMAIN result.entries :
                   result.entries[e] = Projected(tool_input.data, tool_input.mapping.keys[e])

\* a dict of two paths on one data: the first runs into an absent key below
\* "event", the second reaches the string stored at event.id
C31_Witness ==
    /\ frame.at = "returned"
    /\ tool_input.mapping = [kind |-> "dict", keys |-> <<<<"event", "event", "id">>, <<"event", "id">>>>]
    /\ tool_input.data = JDict([event |-> JDict([id |-> JStr("a")])])
    /\ result.entries = <<JNone, JStr("a")>>

\* ------------------------------------------------------------------ claims on fetch_suppliers_tool
RequestFailed == \E p \in DOMAIN calls : calls[p].outcome \in {"raise", "malformed"}

\* C32: when the boundaries request or the supplier request fails, or
\* anything else goes wrong inside the tool, fetch_suppliers_tool returns a
\* dictionary with an error message and does not raise.
C32_FailureReported ==
    (frame.at = "returned" /\ RequestFailed) => result.kind = "error"

\* what the code does instead: a failed request ends the tool with the
\* KeyError of its own handler
C32_HandlerRaises ==
    (frame.at = "returned" /\ RequestFailed)
        => result = [kind |-> "raised", error |-> "KeyError"]

\* C33: with a sort field that is not valid, or with categories given of
\* which none resolves to a category id, fetch_suppliers_tool returns an
\* error value and has issued no request.
NoneResolves ==
    /\ tool_input.categories # <<>>
    /\ \A c \in DOMAIN tool_input.categories :
          \/ tool_input.categories[c] \notin ALLOWED_CATEGORIES
          \/ get_category_ids(tool_input.table, tool_input.categories[c]).raises
          \/ get_category_ids(tool_input.table, tool_input.categories[c]).ids = {}

C33_ValidatesBeforeCalling ==
    (frame.at # "validate"
     /\ (tool_input.sort_by \notin VALID_SORT_FIELDS \/ NoneResolves))
        => /\ frame.at = "returned"
           /\ result.kind = "error"
           /\ calls = <<>>

\* an allowed category that matches no allowed row was asked for with a
\* valid sort field and a location: the tool returned without a request
C33_Witness ==
    /\ frame.at = "returned"
    /\ tool_input.sort_by = "rating"
    /\ tool_input.location = "Stockholm"
    /\ tool_input.categories = <<"Yoga", "sauna">>
    /\ tool_input.table # {}
    /\ result = [kind |-> "error", error |-> "categories"]
    /\ calls = <<>>

\* ------------------------------------------------------------------ claims on the preconditions, actions and result of create_event_tool
Started == frame.at # "create_event"

\* C34: a run whose final_draft_with_suppliers is absent or empty, or lacks
\* 'requirements' or 'timeline', returns an error value without a remote
\* call; every run that has made a remote call started from a draft that
\* holds both keys.
C34_NoCallWithoutDraft ==
    /\ (Started /\ (tool_input.draft.kind = "none"
                     \/ ~({"requirements", "timeline"} \subseteq tool_input.draft.keys)))
          => /\ frame.at = "returned"
             /\ result.kind = "error"
             /\ calls = <<>>
    /\ calls # <<>> => /\ tool_input.draft.kind = "dict"
                       /\ {"requirements", "timeline"} \subseteq tool_input.draft.keys

\* a draft with 'requirements' but no 'timeline' was refused without a call
C34_Witness ==
    /\ frame.at = "returned"
    /\ tool_input.draft = Draft({"requirements"}, TRUE, <<>>)
    /\ result = Error("validation")
    /\ calls = <<>>

\* C35: with action 'create' no supplier-attachment and no send call is made
\* and the result reports neither added_suppliers nor sent_requests; a send
\* call is made only with action 'create_add_suppliers_and_send_requests';
\* added_suppliers is reported only when every supplier call succeeded.
C35_ActionsGateSuppliers ==
    /\ tool_input.action = "create"
          => /\ CallsTo(SupplierOps) = {}
             /\ result.kind = "result" => ~result.added_suppliers /\ ~result.sent_requests
    /\ CallsTo({"add_supplier_to_request_and_send"}) # {}
          => tool_input.action = "create_add_suppliers_and_send_requests"
    /\ (result.kind = "result" /\ result.added_suppliers)
          => \A p \in CallsTo(SupplierOps) : calls[p].outcome = "ok"
    /\ (result.kind = "result" /\ result.sent_requests)
          => /\ result.added_suppliers
             /\ tool_input.action = "create_add_suppliers_and_send_requests"

\* a run that attached suppliers to two contents without sending
C35_Witness ==
    /\ frame.at = "returned"
    /\ tool_input.action = "create_and_add_suppliers"
    /\ Cardinality(CallsTo({"add_supplier_to_request"})) = 2
    /\ result.kind = "result"
    /\ result.added_suppliers
    /\ ~result.sent_requests

\* the part calls made for content i
PartCallsOf(i) == {p \in CallsTo({"add_request_offer_part"}) : calls[p].content = i}

\* C36: a run that returns a result lists one entry per content in
\* declaration order; each carries the request id its part calls were scoped
\* to and counts the part calls of the content that succeeded, between 0 and
\* the number of its parts.
C36_ResultEntries ==
    result.kind = "result"
       => /\ Len(result.contents) = Len(Declared)
          /\ \A i \in DOMAIN result.contents :
                LET entry == result.contents[i] IN
                /\ entry.name = Declared[i].content
                /\ \A p \in PartCallsOf(i) : calls[p].request_id = entry.request_id
                /\ entry.parts_added =
                      Cardinality({p \in PartCallsOf(i) : calls[p].outcome = "ok"})
                /\ entry.parts_added \in 0..Len(Declared[i].parts)

\* two contents, the first with two parts of which one was added, the second
\* without parts
C36_Witness ==
    /\ result.kind = "result"
    /\ Len(result.contents) = 2
    /\ Len(Declared[1].parts) = 2
    /\ result.contents[1].parts_added = 1
    /\ Declared[2].parts = <<>>
    /\ result.contents[2].parts_added = 0

\* ------------------------------------------------------------------ claims on the phases of an invocation
PhaseRank(node) ==
    CASE node = "GatherRequirements" -> 1
      [] node = "DraftEventTimeline" -> 2
      [] node = "FinalDraft" -> 3
      [] node \in LoopNodes -> 4

\* b may execute right after a: the next phase, or the loop going on
Follows(a, b) ==
    \/ PhaseRank(b) = PhaseRank(a) + 1 /\ b # "FindSuppliersAction"
    \/ a \in LoopNodes /\ b \in LoopNodes /\ a # b

NoCallRaised == \A p \in DOMAIN calls : calls[p].outcome # "raise"

\* C38: an invocation that ran to its end has made exactly one
\* supplier-attachment call, and one add-and-send call exactly when
\* send_requests is true; without send_requests nothing is sent and the
\* suppliers are attached once.
C38_AttachOnce ==
    (frame.at = "returned" /\ NoCallRaised)
        => /\ Cardinality(CallsTo({"add_supplier_to_request"})) = 1
           /\ Cardinality(CallsTo({"add_supplier_to_request_and_send"})) =
                 (IF tool_input.send_requests THEN 1 ELSE 0)

\* what the code does instead: without send_requests the attachment call is
\* made twice; nothing is sent unless send_requests is true
C38_AttachTwiceWithoutSend ==
    (frame.at = "returned" /\ NoCallRaised)
        => /\ Cardinality(CallsTo({"add_supplier_to_request"})) =
                 (IF tool_input.send_requests THEN 1 ELSE 2)
           /\ Cardinality(CallsTo({"add_supplier_to_request_and_send"})) =
                 (IF tool_input.send_requests THEN 1 ELSE 0)

\* ------------------------------------------------------------------ claims on get_db_connection
Attempted == CallsTo({"connect"})
FailedAttempts == {p \in Attempted : calls[p].outcome = "OperationalError"}

\* C39: get_db_connection makes at most `retries` connection attempts,
\* returns the connection of the first attempt that succeeds and attempts no
\* more, waits `delay` after each attempt that failed, raises after
\* `retries` OperationalError failures in a row, does not retry after
\* another exception, and always comes to an end.
C39_BoundedRetry ==
    /\ [](Cardinality(Attempted) <= tool_input.retries)
    /\ [](\A p \in Attempted :
            calls[p].outcome # "OperationalError"
               => /\ p = Len(calls)
                  /\ frame.at = "returned"
                  /\ result.kind = (IF calls[p].outcome = "ok" THEN "connection"
                                     ELSE "raised"))
    /\ [](\A p \in FailedAttempts :
            /\ p < Len(calls)
            /\ calls[p + 1] = DbCall("sleep", "ok", tool_input.delay))
    /\ [](result = [kind |-> "raised", error |-> "Exception"]
            => /\ Cardinality(FailedAttempts) = tool_input.retries
               /\ Attempted = FailedAttempts)
    /\ [](result.kind = "connection"
            => /\ calls[Len(calls)].outcome = "ok"
               /\ Attempted \ FailedAttempts = {Len(calls)})
    /\ <>(frame.at = "returned")

\* the third attempt of five succeeded after two waits of 5 seconds
C39_Witness ==
    /\ frame.at = "returned"
    /\ tool_input = [retries |-> 5, delay |-> 5]
    /\ result.kind = "connection"
    /\ calls = <<DbCall("connect", "OperationalError", 0), DbCall("sleep", "ok", 5),
                 DbCall("connect", "OperationalError", 0), DbCall("sleep", "ok", 5),
                 DbCall("connect", "ok", 0)>>

====
